---- MODULE Spec2Model ----
(***************************************************************************)
(* Role-session lifecycle of the IAM role vending machine.                 *)
(*                                                                         *)
(* RoleVendor (role_vendor.py) on top of DynamoDBManager (database.py),    *)
(* the RoleRequest validators (models.py) and Settings (config.py).        *)
(*                                                                         *)
(* Every public operation of RoleVendor is a call running on a worker.     *)
(* Calls of different workers interleave where it can matter: between a    *)
(* call's first access to the session table and its later ones (the writes *)
(* to IAM, to the audit table and to SNS are read by no operation, so they *)
(* are taken together with the table access they follow or precede).       *)
(* Each external interaction ends in one of three ways, the three ways the *)
(* code tells apart: it succeeds ("ok"), it raises botocore's ClientError, *)
(* or it raises another exception (a transport error or timeout).          *)
(*                                                                         *)
(* The session table is modelled at the level of DynamoDBManager's         *)
(* methods: a row per (ProjectId, SessionId) holding the session's fields. *)
(* All sessions belong to one project, so a row's key is its session id.   *)
(* Time is in seconds.                                                     *)
(***************************************************************************)
EXTENDS Integers, FiniteSets, Sequences, Bags, TLC

(* ------------------------------ bounds -------------------------------- *)

\* calls of RoleVendor operations started in one behaviour
MaxCalls == 3
\* session records created in one behaviour
MaxSessions == 2
\* clock ticks of ClockStep seconds
MaxTicks == 2
\* external interactions that fail in one behaviour
MaxFaults == 1

\* the callers that run operations of RoleVendor at the same time
Workers == {1, 2}

(* ------------------------- models.py, config.py ----------------------- *)

\* models.PermissionTier
PermissionTier == {"read-only", "developer", "admin", "break-glass"}

\* models.SessionStatus
SessionStatus == {"PENDING", "ACTIVE", "EXPIRED", "REVOKED", "FAILED"}

\* spec section 3: FAILED, REVOKED, EXPIRED are terminal
TerminalStatus == {"FAILED", "REVOKED", "EXPIRED"}

\* seconds in an hour (duration_hours * 3600, max_session_duration // 3600)
SecondsPerHour == 3600

\* seconds the clock advances in one tick: an hour
ClockStep == SecondsPerHour

\* RoleRequest.duration_hours: Field(..., ge=1, le=36)
MinDurationHours == 1
MaxDurationHours == 36

\* RoleRequest.validate_duration: the two tier limits the validator knows
BreakGlassMaxHours == 1
AdminMaxHours == 8

\* the tier maxima as documented (cli.py list_available_roles, spec 3)
TierMaxHours(tier) ==
    CASE tier = "read-only"   -> 36
      [] tier = "developer"   -> 8
      [] tier = "admin"       -> 8
      [] tier = "break-glass" -> 1

\* RoleRequest.reason: Field(..., min_length=10)
MinReasonLength == 10

\* Settings.max_session_duration: Field(default=3600)
DefaultMaxSessionDuration == 3600

\* Settings: the default configuration, and one an operator can set
\* through the IAM_ROLE_ environment variables (sessions up to 36 hours,
\* MFA not required, a break-glass notification topic)
DefaultSettings ==
    [mfa_required |-> TRUE,
     max_session_duration |-> DefaultMaxSessionDuration,
     break_glass_notification_topic |-> FALSE]
SettingsChoices ==
    { DefaultSettings,
      [mfa_required |-> FALSE,
       max_session_duration |-> MaxDurationHours * SecondsPerHour,
       break_glass_notification_topic |-> TRUE] }

Min(a, b) == IF a < b THEN a ELSE b
Max(a, b) == IF a > b THEN a ELSE b

\* source addresses a request can carry: none, one inside
\* Settings.allowed_ip_ranges, one outside every range, one malformed
NoIp == "None"
IpChoices == {NoIp, "10.1.1.1", "203.0.113.9", "invalid-ip"}

\* ipaddress.ip_address(ip): the four octets of a dotted quad, or none
\* when it raises ValueError (the empty string too)
ParseIp(ip) ==
    CASE ip = "10.1.1.1"       -> <<10, 1, 1, 1>>
      [] ip = "172.31.255.255" -> <<172, 31, 255, 255>>
      [] ip = "172.32.0.1"     -> <<172, 32, 0, 1>>
      [] ip = "192.168.1.1"    -> <<192, 168, 1, 1>>
      [] ip = "203.0.113.9"    -> <<203, 0, 113, 9>>
      [] OTHER                 -> <<>>

\* Settings.allowed_ip_ranges, the default: 10.0.0.0/8, 172.16.0.0/12,
\* 192.168.0.0/16, each as its network address and prefix length
AllowedIpRanges ==
    { [address |-> <<10, 0, 0, 0>>, prefixlen |-> 8],
      [address |-> <<172, 16, 0, 0>>, prefixlen |-> 12],
      [address |-> <<192, 168, 0, 0>>, prefixlen |-> 16] }

\* ip in ipaddress.ip_network(cidr): the first prefixlen bits agree,
\* octet by octet
InNetwork(octets, cidr) ==
    \A i \in 1..4 :
        LET bits == Max(0, Min(8, cidr.prefixlen - 8 * (i - 1)))
        IN  octets[i] \div 2 ^ (8 - bits) = cidr.address[i] \div 2 ^ (8 - bits)

\* ipaddress.ip_address(ip) raises ValueError
MalformedIp(ip) == ParseIp(ip) = <<>>

\* ip in ipaddress.ip_network(cidr) for some cidr of allowed_ip_ranges
InAllowedRange(ip) ==
    \E cidr \in AllowedIpRanges : InNetwork(ParseIp(ip), cidr)

\* duration_hours: below the field's range, the shortest, the request of
\* the tests, one above the 8 hours of two tiers, above the field's range
DurationChoices == {0, 1, 4, 9, 37}
ReasonLengths == {9, 10}
Users == {"u1"}

\* what a caller can put into RoleRequest(...)
AllRequests ==
    [user_id : Users, permission_tier : PermissionTier,
     duration_hours : DurationChoices, reason_len : ReasonLengths,
     ip_address : IpChoices, mfa_used : BOOLEAN]

\* the requests of the model: every tier with every duration, and every
\* address with every MFA flag and reason length, around the request of
\* the tests (read-only, MFA used, no address, a long enough reason)
RequestInputs ==
    {r \in AllRequests :
        \/ r.ip_address = NoIp /\ r.mfa_used /\ r.reason_len >= MinReasonLength
        \/ r.permission_tier = "read-only" /\ r.duration_hours = 1}

\* RoleRequest.validate_duration
validate_duration(tier, v) ==
    /\ ~(tier = "break-glass" /\ v > BreakGlassMaxHours)
    /\ ~(tier = "admin" /\ v > AdminMaxHours)

\* RoleRequest(...) constructs without a pydantic ValidationError
RoleRequestConstructs(r) ==
    /\ r.duration_hours >= MinDurationHours
    /\ r.duration_hours <= MaxDurationHours
    /\ validate_duration(r.permission_tier, r.duration_hours)
    /\ r.reason_len >= MinReasonLength

\* _is_ip_allowed letting an address through when it does not parse
is_ip_allowed_fail_open(ip) ==
    IF MalformedIp(ip) THEN TRUE ELSE InAllowedRange(ip)

\* RoleVendor._is_ip_allowed
is_ip_allowed(ip) ==
    IF MalformedIp(ip) THEN FALSE ELSE InAllowedRange(ip)

\* `if request.ip_address`: the request carries an address, one that is
\* neither None nor the empty string
IpGiven(ip) == ip \notin {NoIp, ""}

\* _validate_request without the MFA check of lines 252-254
validate_request_no_mfa_check(cfg, r) ==
    /\ ~(IpGiven(r.ip_address) /\ ~is_ip_allowed(r.ip_address))
    /\ ~(r.duration_hours > cfg.max_session_duration \div SecondsPerHour)

\* RoleVendor._validate_request
validate_request(cfg, r) ==
    /\ ~(IpGiven(r.ip_address) /\ ~is_ip_allowed(r.ip_address))
    /\ ~(cfg.mfa_required /\ ~r.mfa_used)
    /\ ~(r.duration_hours > cfg.max_session_duration \div SecondsPerHour)

(* ------------------------------- state -------------------------------- *)

VARIABLES
    settings,      \* config.settings, fixed when the process starts
    now,           \* datetime.utcnow(), in seconds
    table,         \* the session table: session id -> row, or NoItem
    auditTable,    \* the audit table: the entries written
    roles,         \* IAM: role name -> NoRole, or the role of that name
    held,          \* the session objects request_role has returned
    pc,            \* worker -> position of its call
    loc,           \* worker -> the locals and effects of its call
    ncalls,        \* calls started so far
    nfaults,       \* external interactions that have failed so far
    calc           \* a function of the program under study on its own:
                   \* its inputs and, once applied, what it returned

vars  == <<settings, now, table, auditTable, roles, held, pc, loc,
           ncalls, nfaults, calc>>

\* no function is under study on its own
NoCalc == [op |-> "none"]

\* Python's None, for a row, a role, a session id, a request, an ARN
NoItem == [none |-> "item"]
NoRole == [none |-> "role"]
NoSid  == <<0, 0>>
NoReq  == [none |-> "request"]
NoArn  == <<>>

\* a session id is str(uuid4()); <<p, n>> stands for the id whose first
\* eight characters are p and whose remaining characters are n
SessionIds == (1..MaxSessions) \X (1..MaxSessions)

\* session_id[:8]
Prefix8(sid) == sid[1]

\* role_name = f"temp-role-{request.project_id}-{session_id[:8]}"
RoleName(sid) == Prefix8(sid)
RoleNames == 1..MaxSessions

\* config.get_role_arn(settings.aws_account_id, role_name)
get_role_arn(role_name) == <<"arn:aws:iam::role", role_name>>

\* config.get_external_id: sha256 of project, user and the current hour
get_external_id(user, t) == <<user, t \div SecondsPerHour>>

\* the three ways an external interaction ends
Outcomes == {"ok", "ClientError", "Exception"}

\* the outcomes of the interactions of one step, in the order the step
\* makes them
OutcomeSeqs ==
    {os \in [1..3 -> Outcomes] :
        nfaults + Cardinality({i \in 1..3 : os[i] # "ok"}) <= MaxFaults}

\* every interaction of a step succeeds
AllOk == [i \in 1..3 |-> "ok"]

\* a step makes its first `used` interactions with the outcomes os; the
\* failures count against MaxFaults
Interact(os, used) ==
    LET failed == Cardinality({i \in 1..used : os[i] # "ok"})
    IN  /\ \A i \in (used + 1)..3 : os[i] = "ok"
        /\ nfaults + failed <= MaxFaults
        /\ nfaults' = nfaults + failed

StoredSessions == {s \in SessionIds : table[s] # NoItem}

\* the ids a caller passes: those of the stored sessions and one that was
\* never issued
KnownIds == StoredSessions \cup {NoSid}

\* uuid4(): any id not in use; ids are chosen up to renaming, a new id
\* either repeats the first eight characters of a stored one or does not
FreshIds ==
    LET usedP == {Prefix8(s) : s \in StoredSessions}
        newP  == {p \in 1..MaxSessions : p \notin usedP /\ \A q \in 1..MaxSessions : q < p => q \in usedP}
        nextN(p) == 1 + Cardinality({s \in StoredSessions : Prefix8(s) = p})
    IN  {<<p, nextN(p)>> : p \in usedP \cup newP} \cap SessionIds

\* the request metadata _create_session_record captures
RequestMetadata(r, ext) ==
    [external_id |-> ext, ip_address |-> r.ip_address,
     mfa_used |-> r.mfa_used, reason |-> r.reason_len]

\* RoleVendor._create_session_record: the RoleSession it builds
NewSession(r, sid, ext, t) ==
    [session_id |-> sid, user_id |-> r.user_id, role_arn |-> NoArn,
     permission_tier |-> r.permission_tier, requested_at |-> t,
     expires_at |-> t + r.duration_hours * SecondsPerHour,
     status |-> "PENDING", request_metadata |-> RequestMetadata(r, ext)]

(* ------------------------------ database.py --------------------------- *)

\* DynamoDBManager.create_session: put_item
create_session(tbl, session) ==
    [tbl EXCEPT ![session.session_id] = session]

\* DynamoDBManager.get_session
get_session(tbl, sid) == IF sid \in DOMAIN tbl THEN tbl[sid] ELSE NoItem

\* DynamoDBManager.update_session_status: SET #status = :status, and
\* RequestMetadata = :metadata when metadata is given; no condition
\* (RoleVendor calls it for rows it has created or read, and deletes none)
update_session_status(tbl, sid, status, metadata) ==
    IF tbl[sid] = NoItem THEN tbl
    ELSE IF metadata = NoItem
         THEN [tbl EXCEPT ![sid].status = status]
         ELSE [tbl EXCEPT ![sid].status = status,
                          ![sid].request_metadata = metadata]

\* get_expired_sessions without the filter on the status
get_expired_sessions_any_status(tbl, t) ==
    {s \in SessionIds : tbl[s] # NoItem /\ tbl[s].expires_at < t}

\* get_expired_sessions selecting the ACTIVE sessions only
get_expired_sessions_active_only(tbl, t) ==
    {s \in SessionIds : /\ tbl[s] # NoItem
                        /\ tbl[s].expires_at < t
                        /\ tbl[s].status = "ACTIVE"}

\* DynamoDBManager.get_expired_sessions: ExpiresAt < now, Status <> EXPIRED
get_expired_sessions(tbl, t) ==
    {s \in SessionIds : /\ tbl[s] # NoItem
                        /\ tbl[s].expires_at < t
                        /\ tbl[s].status # "EXPIRED"}

\* one applied status write: the session, its status before and after
StatusWrite(tbl, sid, status) ==
    [sid |-> sid, from |-> tbl[sid].status, to |-> status]

\* models.AuditLog: user, action, tier, result; sid is the session the
\* call was about (the entry itself carries a random request_id only)
AuditLog(sid, user, action, tier, result) ==
    [sid |-> sid, user_id |-> user, action |-> action,
     permission_tier |-> tier, result |-> result]

\* DynamoDBManager.log_audit_event: put_item on the audit table
log_audit_event(aud, entry) == aud \cup {entry}

(* ------------------------------- workers ------------------------------ *)

\* the locals of a call (op, the time at which it read the clock, req,
\* sid, sess, remaining, cleaned, result)
\* and what the call has done so far: the audit entries it wrote (audits),
\* the number of audit entries the audit table did not take (dropped),
\* the status writes it applied (wrote), its exchange with STS (sts), its
\* SNS publications (published), the number of its interactions that
\* failed (faults), and whether it is a sweep run right after a sweep
\* (after)
IdleLoc ==
    [op |-> "none", at |-> 0, req |-> NoReq, sid |-> NoSid, sess |-> NoItem,
     remaining |-> {}, cleaned |-> 0, audits |-> <<>>, dropped |-> 0,
     wrote |-> <<>>, sts |-> NoItem, published |-> 0, faults |-> 0,
     after |-> "none", result |-> [kind |-> "running"]]

Init ==
    /\ settings \in SettingsChoices
    /\ now = 0
    /\ table = [s \in SessionIds |-> NoItem]
    /\ auditTable = {}
    /\ roles = [n \in RoleNames |-> NoRole]
    /\ held = [s \in SessionIds |-> NoItem]
    /\ pc = [w \in Workers |-> "idle"]
    /\ loc = [w \in Workers |-> IdleLoc]
    /\ ncalls = 0
    /\ nfaults = 0
    /\ calc = NoCalc

\* a worker is free when it runs no call; the result of its last call
\* stays in loc until the next call starts
Free(w) == pc[w] \in {"idle", "done"}

\* a call starts on the lowest free worker (workers are interchangeable)
CanStart(w) ==
    /\ Free(w)
    /\ \A v \in Workers : v < w => ~Free(v)
    /\ ncalls < MaxCalls

\* pc and loc when a call starts: the results of finished calls are gone
StartPc  == [v \in Workers |-> IF Free(v) THEN "idle" ELSE pc[v]]
StartLoc == [v \in Workers |-> IF Free(v) THEN IdleLoc ELSE loc[v]]


\* the session objects a caller can pass to assume_role: one that
\* request_role returned, or one read from the table
CallerSessions ==
    {held[s] : s \in {x \in SessionIds : held[x] # NoItem}}
        \cup {table[s] : s \in StoredSessions}

\* a return value of a call
Ret(kind) == [kind |-> kind]

\* the call has written audit entry e / failed to write an audit entry /
\* applied status write sw
Audited(l, e) == [l EXCEPT !.audits = Append(@, e)]
Dropped(l)    == [l EXCEPT !.dropped = @ + 1]
Wrote(l, sw)  == [l EXCEPT !.wrote = Append(@, sw)]

\* what a step leaves behind: the session table, the audit table, the
\* call's locals, the value returned (or "running"), and the number of
\* interactions the step made
Effect(tbl, aud, l, res, used) ==
    [tbl |-> tbl, aud |-> aud, l |-> [l EXCEPT !.result = res],
     done |-> res.kind # "running", used |-> used]

Running == Ret("running")

\* what came before a call with locals l on a worker whose last call
\* left prev: a sweep that starts when the worker's last call was a
\* completed sweep started at the same time comes after that sweep, one in
\* which every interaction succeeded or one in which some failed
After(prev, l) ==
    IF /\ l.op = "cleanup_expired_sessions"
       /\ prev.op = "cleanup_expired_sessions"
       /\ prev.result.kind = "count"
       /\ prev.at = l.at
    THEN IF prev.faults = 0 THEN "sweep" ELSE "failed_sweep"
    ELSE "none"

\* the call of worker w goes on after a step with effect e, in which
\* nfaults' - nfaults interactions failed
Continue(w, e, p) ==
    /\ table' = e.tbl
    /\ auditTable' = e.aud
    /\ pc' = [pc EXCEPT ![w] = IF e.done THEN "done" ELSE p]
    /\ loc' = [loc EXCEPT ![w] =
                  [e.l EXCEPT !.faults = @ + nfaults' - nfaults]]

\* a call starts on worker w with a step of effect e
Start(w, e, p) ==
    /\ table' = e.tbl
    /\ auditTable' = e.aud
    /\ pc' = [StartPc EXCEPT ![w] = IF e.done THEN "done" ELSE p]
    /\ loc' = [StartLoc EXCEPT ![w] =
                  [e.l EXCEPT !.faults = nfaults' - nfaults,
                              !.after = After(loc[w], e.l)]]
    /\ ncalls' = ncalls + 1

(* ------------------------- RoleVendor.request_role --------------------- *)

\* how RoleVendor._create_temporary_role ends: the template lookup or the
\* rendering raises, iam.create_role raises, iam.put_role_policy raises
\* (after the role was created), or the role ARN is returned
ProvisionOutcomes == {"render_error", "create_error", "policy_error", "ok"}

\* _create_temporary_role with a create_role that replaces a role of the
\* same name
create_temporary_role_replacing(rls, sid, po) ==
    IF po \in {"render_error", "create_error"}
    THEN rls
    ELSE [rls EXCEPT ![RoleName(sid)] =
              [policy |-> (po = "ok"), sid |-> sid]]

\* IAM after _create_temporary_role(request, sid) ended with outcome po;
\* create_role on a role name that exists raises EntityAlreadyExists
create_temporary_role(rls, sid, po) ==
    IF rls[RoleName(sid)] # NoRole \/ po \in {"render_error", "create_error"}
    THEN rls
    ELSE [rls EXCEPT ![RoleName(sid)] =
              [policy |-> (po = "ok"), sid |-> sid]]

\* _create_temporary_role with its except branches returning role_arn
create_temporary_role_result_unchecked(rls, sid, po) ==
    get_role_arn(RoleName(sid))

\* the value _create_temporary_role returns: the ARN, or NoArn for None
create_temporary_role_result(rls, sid, po) ==
    IF rls[RoleName(sid)] = NoRole /\ po = "ok"
    THEN get_role_arn(RoleName(sid))
    ELSE NoArn

\* request_role storing the session record before it validates the
\* request
request_role_begin_store_first(cfg, tbl, aud, r, sid, t, os) ==
    LET l0 == [IdleLoc EXCEPT !.op = "request_role", !.at = t, !.req = r]
        session == NewSession(r, sid, get_external_id(r.user_id, t), t)
    IN  IF ~RoleRequestConstructs(r)
        THEN Effect(tbl, aud, l0, Ret("ValidationError"), 0)
        ELSE IF os[1] # "ok"
        THEN Effect(tbl, aud, l0, Ret("None"), 1)
        ELSE IF ~validate_request(cfg, r)
        THEN Effect(create_session(tbl, session), aud, l0, Ret("None"), 1)
        ELSE Effect(create_session(tbl, session), aud,
                    [l0 EXCEPT !.sid = sid, !.sess = session], Running, 1)

\* request_role, role_vendor.py lines 33-45, up to and including
\* _create_session_record; a RoleRequest that does not construct raises
\* in the caller, before request_role runs
request_role_begin(cfg, tbl, aud, r, sid, t, os) ==
    LET l0 == [IdleLoc EXCEPT !.op = "request_role", !.at = t, !.req = r]
        session == NewSession(r, sid, get_external_id(r.user_id, t), t)
    IN  IF ~RoleRequestConstructs(r)
        THEN Effect(tbl, aud, l0, Ret("ValidationError"), 0)
        ELSE IF ~validate_request(cfg, r)
        THEN Effect(tbl, aud, l0, Ret("None"), 0)
        ELSE IF os[1] = "ok"
        THEN Effect(create_session(tbl, session), aud,
                    [l0 EXCEPT !.sid = sid, !.sess = session], Running, 1)
        ELSE Effect(tbl, aud, l0, Ret("None"), 1)

\* request_role, role_vendor.py lines 76-85: except Exception: audit
\* FAILURE and return None; an exception of this _log_audit_event leaves
\* request_role uncaught
request_role_except(tbl, aud, l, o, used) ==
    LET entry == AuditLog(l.sid, l.req.user_id, "ROLE_REQUESTED",
                          l.req.permission_tier, "FAILURE")
    IN  CASE o = "ok" ->
               Effect(tbl, log_audit_event(aud, entry), Audited(l, entry),
                      Ret("None"), used)
          [] o = "ClientError" ->
               Effect(tbl, aud, Dropped(l), Ret("None"), used)
          [] o = "Exception" ->
               Effect(tbl, aud, Dropped(l), Ret("raised"), used)

\* request_role, role_vendor.py lines 49-53: no role ARN; mark the
\* session FAILED and return None
request_role_failed(tbl, aud, l, os) ==
    CASE os[1] = "ok" ->
           Effect(update_session_status(tbl, l.sid, "FAILED", NoItem), aud,
                  Wrote(l, StatusWrite(tbl, l.sid, "FAILED")), Ret("None"), 1)
      [] os[1] = "ClientError" -> Effect(tbl, aud, l, Ret("None"), 1)
      [] os[1] = "Exception" -> request_role_except(tbl, aud, l, os[2], 2)

\* request_role, role_vendor.py lines 55-74: the role was created; write
\* ACTIVE (the value update_session_status returns is not looked at),
\* audit SUCCESS and return the session
request_role_active(tbl, aud, l, arn, os) ==
    LET la == [l EXCEPT !.sess.role_arn = arn, !.sess.status = "ACTIVE"]
        entry == AuditLog(l.sid, l.req.user_id, "ROLE_REQUESTED",
                          l.req.permission_tier, "SUCCESS")
        tbl1 == IF os[1] = "ok"
                THEN update_session_status(tbl, l.sid, "ACTIVE",
                                           [role_arn |-> arn])
                ELSE tbl
        l1 == IF os[1] = "ok"
              THEN Wrote(la, StatusWrite(tbl, l.sid, "ACTIVE"))
              ELSE la
    IN  IF os[1] = "Exception"
        THEN request_role_except(tbl, aud, la, os[2], 2)
        ELSE CASE os[2] = "ok" ->
                    Effect(tbl1, log_audit_event(aud, entry),
                           Audited(l1, entry), Ret("session"), 2)
               [] os[2] = "ClientError" ->
                    Effect(tbl1, aud, Dropped(l1), Ret("session"), 2)
               [] os[2] = "Exception" ->
                    request_role_except(tbl1, aud, Dropped(l1), os[3], 3)

\* request_role after _create_temporary_role returned arn
request_role_end(tbl, aud, l, arn, os) ==
    IF arn = NoArn
    THEN request_role_failed(tbl, aud, l, os)
    ELSE request_role_active(tbl, aud, l, arn, os)

RequestRoleStart(w, r, sid, os) ==
    /\ CanStart(w)
    /\ Cardinality(StoredSessions) < MaxSessions
    /\ sid \in FreshIds
    /\ LET e == request_role_begin(settings, table, auditTable, r, sid, now, os)
       IN  /\ Interact(os, e.used)
           /\ Start(w, e, "request_role")
    /\ UNCHANGED <<calc, settings, now, roles, held>>

\* the audit table is out of reach: the write of the SUCCESS entry raises
\* and so does the write of the FAILURE entry that follows it in the
\* except branch; the two count as one failure
AuditOutage == [i \in 1..3 |-> IF i = 1 THEN "ok" ELSE "Exception"]

\* the outcomes of the interactions of request_role after
\* _create_temporary_role
RequestRoleEndOutcomes ==
    OutcomeSeqs \cup (IF nfaults < MaxFaults THEN {AuditOutage} ELSE {})

RequestRoleEnd(w, po, os) ==
    /\ pc[w] = "request_role"
    /\ po # "ok" => nfaults < MaxFaults
    /\ LET l == loc[w]
           arn == create_temporary_role_result(roles, l.sid, po)
           e == request_role_end(table, auditTable, l, arn, os)
           pf == IF po = "ok" THEN 0 ELSE 1
       IN  /\ roles' = create_temporary_role(roles, l.sid, po)
           /\ \A i \in (e.used + 1)..3 : os[i] = "ok"
           /\ LET failed ==
                      pf + (IF os = AuditOutage THEN 1
                            ELSE Cardinality({i \in 1..e.used : os[i] # "ok"}))
              IN  /\ nfaults + failed <= MaxFaults
                  /\ nfaults' = nfaults + failed
           /\ Continue(w, e, "request_role")
           /\ held' = IF e.l.result.kind = "session"
                      THEN [held EXCEPT ![l.sid] = e.l.sess]
                      ELSE held
    /\ UNCHANGED <<calc, settings, now, ncalls>>

(* -------------------------- RoleVendor.assume_role --------------------- *)

\* the fixed ceiling of DurationSeconds (role_vendor.py line 105)
MaxCredentialSeconds == 3600

\* DurationSeconds set to the ceiling, whatever is left of the session
DurationSeconds_ceiling_only(session, t) == MaxCredentialSeconds

\* DurationSeconds=min(3600, (session.expires_at - utcnow()).total_seconds())
DurationSeconds(session, t) ==
    Min(MaxCredentialSeconds, session.expires_at - t)

\* the request sts.assume_role receives (role_vendor.py lines 102-107)
StsRequest(session, t) ==
    [RoleArn |-> session.role_arn,
     DurationSeconds |-> DurationSeconds(session, t), at |-> t]

\* RoleVendor._expire_session, called by assume_role at line 94; the
\* ValueError raised next is caught at line 138, as is an exception of
\* the update
expire_session(tbl, aud, l, os) ==
    IF os[1] = "ok"
    THEN Effect(update_session_status(tbl, l.sid, "EXPIRED", NoItem), aud,
                Wrote(l, StatusWrite(tbl, l.sid, "EXPIRED")), Ret("None"), 1)
    ELSE Effect(tbl, aud, l, Ret("None"), 1)

\* assume_role, role_vendor.py lines 97-137: the exchange with STS and
\* the audit entry; an exception of the SUCCESS entry is caught at line
\* 138, one of the FAILURE entry leaves assume_role uncaught
assume_role_exchange(tbl, aud, l, t, os) ==
    LET ls == [l EXCEPT !.sts = StsRequest(l.sess, t)]
        entry(result) == AuditLog(l.sid, l.sess.user_id, "ROLE_ASSUMED",
                                  l.sess.permission_tier, result)
    IN  CASE os[1] = "ok" ->
               ( CASE os[2] = "ok" ->
                        Effect(tbl, log_audit_event(aud, entry("SUCCESS")),
                               Audited(ls, entry("SUCCESS")),
                               Ret("credentials"), 2)
                   [] os[2] = "ClientError" ->
                        Effect(tbl, aud, Dropped(ls), Ret("credentials"), 2)
                   [] os[2] = "Exception" ->
                        Effect(tbl, aud, Dropped(ls), Ret("None"), 2) )
          [] os[1] = "ClientError" ->
               ( CASE os[2] = "ok" ->
                        Effect(tbl, log_audit_event(aud, entry("FAILURE")),
                               Audited(ls, entry("FAILURE")), Ret("None"), 2)
                   [] os[2] = "ClientError" ->
                        Effect(tbl, aud, Dropped(ls), Ret("None"), 2)
                   [] os[2] = "Exception" ->
                        Effect(tbl, aud, Dropped(ls), Ret("raised"), 2) )
          [] os[1] = "Exception" -> Effect(tbl, aud, ls, Ret("None"), 1)

\* assume_role without the expiry check of lines 93-95
assume_role_no_expiry_check(tbl, aud, session, t, os) ==
    LET l == [IdleLoc EXCEPT !.op = "assume_role", !.at = t,
                             !.sess = session, !.sid = session.session_id]
    IN  IF session.status # "ACTIVE"
        THEN Effect(tbl, aud, l, Ret("None"), 0)
        ELSE assume_role_exchange(tbl, aud, l, t, os)

\* assume_role without the status check of lines 90-91
assume_role_no_status_check(tbl, aud, session, t, os) ==
    LET l == [IdleLoc EXCEPT !.op = "assume_role", !.at = t,
                             !.sess = session, !.sid = session.session_id]
    IN  IF t > session.expires_at
        THEN expire_session(tbl, aud, l, os)
        ELSE assume_role_exchange(tbl, aud, l, t, os)

\* RoleVendor.assume_role(session), role_vendor.py lines 87-140, called
\* at time t
assume_role(tbl, aud, session, t, os) ==
    LET l == [IdleLoc EXCEPT !.op = "assume_role", !.at = t,
                             !.sess = session, !.sid = session.session_id]
    IN  IF session.status # "ACTIVE"
        THEN Effect(tbl, aud, l, Ret("None"), 0)
        ELSE IF t > session.expires_at
        THEN expire_session(tbl, aud, l, os)
        ELSE assume_role_exchange(tbl, aud, l, t, os)

AssumeRole(w, session, os) ==
    /\ CanStart(w)
    /\ LET e == assume_role(table, auditTable, session, now, os)
       IN  /\ Interact(os, e.used)
           /\ Start(w, e, "assume_role")
    /\ UNCHANGED <<calc, settings, now, roles, held>>

(* ------------------------ RoleVendor.revoke_session -------------------- *)

\* revoke_session reporting success for a session it does not find
revoke_session_begin_missing_succeeds(tbl, aud, sid, os) ==
    LET l == [IdleLoc EXCEPT !.op = "revoke_session", !.sid = sid]
        session == get_session(tbl, sid)
    IN  IF os[1] = "ok" /\ session # NoItem
        THEN Effect(tbl, aud, [l EXCEPT !.sess = session], Running, 1)
        ELSE IF os[1] = "ok"
        THEN Effect(tbl, aud, l, Ret("True"), 1)
        ELSE Effect(tbl, aud, l, Ret("False"), 1)

\* revoke_session, role_vendor.py lines 144-147: get_session
revoke_session_begin(tbl, aud, sid, os) ==
    LET l == [IdleLoc EXCEPT !.op = "revoke_session", !.sid = sid]
        session == get_session(tbl, sid)
    IN  IF os[1] = "ok" /\ session # NoItem
        THEN Effect(tbl, aud, [l EXCEPT !.sess = session], Running, 1)
        ELSE Effect(tbl, aud, l, Ret("False"), 1)

\* RoleVendor._send_break_glass_notification: sns.publish, every
\* exception swallowed
send_break_glass_notification(l, o) ==
    IF o = "ok" THEN [l EXCEPT !.published = @ + 1] ELSE l

\* revoke_session notifying for a session of any tier
revoke_session_end_notify_every_tier(cfg, tbl, aud, l, os) ==
    LET entry == AuditLog(l.sid, l.sess.user_id, "ROLE_REVOKED",
                          l.sess.permission_tier, "SUCCESS")
        tbl1 == update_session_status(tbl, l.sid, "REVOKED", NoItem)
        l1 == Wrote(l, StatusWrite(tbl, l.sid, "REVOKED"))
        aud2 == IF os[2] = "ok" THEN log_audit_event(aud, entry) ELSE aud
        l2 == IF os[2] = "ok" THEN Audited(l1, entry) ELSE Dropped(l1)
    IN  IF os[1] # "ok"
        THEN Effect(tbl, aud, l, Ret("False"), 1)
        ELSE IF os[2] = "Exception"
        THEN Effect(tbl1, aud2, l2, Ret("False"), 2)
        ELSE IF cfg.break_glass_notification_topic
        THEN Effect(tbl1, aud2, send_break_glass_notification(l2, os[3]),
                    Ret("True"), 3)
        ELSE Effect(tbl1, aud2, l2, Ret("True"), 2)

\* revoke_session, role_vendor.py lines 149-171: write REVOKED; on
\* success audit and, for a break-glass session, notify
revoke_session_end(cfg, tbl, aud, l, os) ==
    LET entry == AuditLog(l.sid, l.sess.user_id, "ROLE_REVOKED",
                          l.sess.permission_tier, "SUCCESS")
        tbl1 == update_session_status(tbl, l.sid, "REVOKED", NoItem)
        l1 == Wrote(l, StatusWrite(tbl, l.sid, "REVOKED"))
        aud2 == IF os[2] = "ok" THEN log_audit_event(aud, entry) ELSE aud
        l2 == IF os[2] = "ok" THEN Audited(l1, entry) ELSE Dropped(l1)
    IN  IF os[1] # "ok"
        THEN Effect(tbl, aud, l, Ret("False"), 1)
        ELSE IF os[2] = "Exception"
        THEN Effect(tbl1, aud2, l2, Ret("False"), 2)
        ELSE IF /\ l.sess.permission_tier = "break-glass"
                /\ cfg.break_glass_notification_topic
        THEN Effect(tbl1, aud2, send_break_glass_notification(l2, os[3]),
                    Ret("True"), 3)
        ELSE Effect(tbl1, aud2, l2, Ret("True"), 2)

RevokeStart(w, sid, os) ==
    /\ CanStart(w)
    /\ LET e == revoke_session_begin(table, auditTable, sid, os)
       IN  /\ Interact(os, e.used)
           /\ Start(w, e, "revoke_session")
    /\ UNCHANGED <<calc, settings, now, roles, held>>

RevokeEnd(w, os) ==
    /\ pc[w] = "revoke_session"
    /\ LET e == revoke_session_end(settings, table, auditTable, loc[w], os)
       IN  /\ Interact(os, e.used)
           /\ Continue(w, e, "revoke_session")
    /\ UNCHANGED <<calc, settings, now, roles, held, ncalls>>

(* ------------------- RoleVendor.cleanup_expired_sessions --------------- *)

\* the value cleanup_expired_sessions returns
Count(n) == [kind |-> "count", n |-> n]

\* cleanup_expired_sessions, role_vendor.py lines 219-221:
\* get_expired_sessions at time t
cleanup_begin(tbl, aud, t, os) ==
    LET l == [IdleLoc EXCEPT !.op = "cleanup_expired_sessions", !.at = t]
        expired == get_expired_sessions(tbl, t)
    IN  IF os[1] = "ok" /\ expired # {}
        THEN Effect(tbl, aud, [l EXCEPT !.remaining = expired], Running, 1)
        ELSE Effect(tbl, aud, l, Count(0), 1)

\* cleanup_expired_sessions, role_vendor.py lines 223-242: one turn of
\* the loop, for session sid of the list
cleanup_turn(tbl, aud, l0, sid, os) ==
    LET l == [l0 EXCEPT !.remaining = @ \ {sid}, !.sid = sid,
                        !.sess = get_session(tbl, sid)]
        entry == AuditLog(sid, l.sess.user_id, "ROLE_EXPIRED",
                          l.sess.permission_tier, "SUCCESS")
        next(lx) == IF lx.remaining = {} THEN Count(lx.cleaned) ELSE Running
        l1 == Wrote([l EXCEPT !.cleaned = @ + 1],
                    StatusWrite(tbl, sid, "EXPIRED"))
        tbl1 == update_session_status(tbl, sid, "EXPIRED", NoItem)
    IN  CASE os[1] = "ok" ->
               ( CASE os[2] = "ok" ->
                        Effect(tbl1, log_audit_event(aud, entry),
                               Audited(l1, entry), next(l1), 2)
                   [] os[2] = "ClientError" ->
                        Effect(tbl1, aud, Dropped(l1), next(l1), 2)
                   [] os[2] = "Exception" ->
                        Effect(tbl1, aud, Dropped(l1), Count(0), 2) )
          [] os[1] = "ClientError" -> Effect(tbl, aud, l, next(l), 1)
          [] os[1] = "Exception" -> Effect(tbl, aud, l, Count(0), 1)

CleanupStart(w, os) ==
    /\ CanStart(w)
    /\ LET e == cleanup_begin(table, auditTable, now, os)
       IN  /\ Interact(os, e.used)
           /\ Start(w, e, "cleanup_expired_sessions")
    /\ UNCHANGED <<calc, settings, now, roles, held>>

CleanupTurn(w, sid, os) ==
    /\ pc[w] = "cleanup_expired_sessions"
    /\ sid \in loc[w].remaining
    /\ LET e == cleanup_turn(table, auditTable, loc[w], sid, os)
       IN  /\ Interact(os, e.used)
           /\ Continue(w, e, "cleanup_expired_sessions")
    /\ UNCHANGED <<calc, settings, now, roles, held, ncalls>>

(* ---------------------- RoleVendor.get_session_status ------------------ *)

\* the status view of a session at time t
StatusView(session, t) ==
    [kind |-> "status", session_id |-> session.session_id,
     status |-> session.status,
     time_remaining |-> Max(0, session.expires_at - t)]

\* RoleVendor.get_session_status, role_vendor.py lines 173-193
get_session_status(tbl, aud, sid, t, os) ==
    LET l == [IdleLoc EXCEPT !.op = "get_session_status", !.at = t,
                             !.sid = sid]
        session == get_session(tbl, sid)
    IN  IF os[1] = "ok" /\ session # NoItem
        THEN Effect(tbl, aud, l, StatusView(session, t), 1)
        ELSE Effect(tbl, aud, l, Ret("None"), 1)

GetSessionStatus(w, sid, os) ==
    /\ CanStart(w)
    /\ LET e == get_session_status(table, auditTable, sid, now, os)
       IN  /\ Interact(os, e.used)
           /\ Start(w, e, "get_session_status")
    /\ UNCHANGED <<calc, settings, now, roles, held>>

(* ------------------------------ environment --------------------------- *)

\* time passes; the operations read the clock in their first step only,
\* so time is let pass only while a call can still start
Tick ==
    /\ now < MaxTicks * ClockStep
    /\ ncalls < MaxCalls
    /\ \E w \in Workers : Free(w)
    /\ now' = now + ClockStep
    /\ UNCHANGED <<calc, settings, table, auditTable, roles, held, pc, loc,
                   ncalls, nfaults>>

\* the steps of request_role on the workers W, with requests from R
RequestRoleSteps(W, R) ==
    \/ \E w \in W : CanStart(w) /\ \E sid \in FreshIds :
           \E r \in R, os \in OutcomeSeqs : RequestRoleStart(w, r, sid, os)
    \/ \E w \in W : pc[w] = "request_role" /\
           \E po \in ProvisionOutcomes, os \in RequestRoleEndOutcomes :
               RequestRoleEnd(w, po, os)

\* the steps of revoke_session on the workers W
RevokeSteps(W) ==
    \/ \E w \in W : CanStart(w) /\
           \E sid \in KnownIds, os \in OutcomeSeqs : RevokeStart(w, sid, os)
    \/ \E w \in W : pc[w] = "revoke_session" /\
           \E os \in OutcomeSeqs : RevokeEnd(w, os)

\* the steps of cleanup_expired_sessions on the workers W
CleanupSteps(W) ==
    \/ \E w \in W : CanStart(w) /\
           \E os \in OutcomeSeqs : CleanupStart(w, os)
    \/ \E w \in W : pc[w] = "cleanup_expired_sessions" /\
           \E sid \in loc[w].remaining, os \in OutcomeSeqs :
               CleanupTurn(w, sid, os)

\* assume_role and get_session_status on the workers W
AssumeRoleSteps(W) ==
    \E w \in W : CanStart(w) /\
        \E session \in CallerSessions, os \in OutcomeSeqs :
            AssumeRole(w, session, os)

StatusSteps(W) ==
    \E w \in W : CanStart(w) /\
        \E sid \in KnownIds, os \in OutcomeSeqs :
            GetSessionStatus(w, sid, os)

\* two requests every configuration accepts: the request of the tests for
\* one hour, and a break-glass request
LifecycleRequests ==
    {r \in RequestInputs :
        /\ RoleRequestConstructs(r) /\ validate_request(DefaultSettings, r)
        /\ r.ip_address = NoIp
        /\ r.permission_tier \in {"read-only", "break-glass"}}

\* the lifecycle: every operation, calls on two workers interleaved
Next ==
    \/ RequestRoleSteps(Workers, LifecycleRequests)
    \/ AssumeRoleSteps(Workers)
    \/ RevokeSteps(Workers)
    \/ CleanupSteps(Workers)
    \/ StatusSteps(Workers)
    \/ Tick

Spec == Init /\ [][Next]_vars

\* provisioning: request_role and revoke_session only, calls on two
\* workers interleaved; the operations that create roles and write ACTIVE,
\* and the one that races them on a PENDING session
NextProvision ==
    \/ RequestRoleSteps(Workers, LifecycleRequests)
    \/ RevokeSteps(Workers)

SpecProvision == Init /\ [][NextProvision]_vars

\* the id of the one session of SpecRequest
FirstSid == <<1, 1>>

\* one session: request_role with every request until one is stored, and
\* every operation on that session, one call after the other
NextRequest ==
    \/ CanStart(1) /\ StoredSessions = {} /\
           \E r \in RequestInputs, os \in OutcomeSeqs :
               RequestRoleStart(1, r, FirstSid, os)
    \/ pc[1] = "request_role" /\
           \E po \in ProvisionOutcomes, os \in RequestRoleEndOutcomes :
               RequestRoleEnd(1, po, os)
    \/ AssumeRoleSteps({1})
    \/ RevokeSteps({1})
    \/ CleanupSteps({1})
    \/ StatusSteps({1})
    \/ Tick

SpecRequest == Init /\ [][NextRequest]_vars

\* request_role turns request r down under settings cfg: RoleRequest does
\* not construct, or _validate_request returns False
ValidatorRejects(cfg, r) ==
    ~(RoleRequestConstructs(r) /\ validate_request(cfg, r))

\* the requests request_role turns down under settings cfg
RejectedRequests(cfg) == {r \in RequestInputs : ValidatorRejects(cfg, r)}

\* requests that are turned down: request_role with every request until
\* one is stored and with the requests it turns down after that, and
\* revoke_session on the stored session, one call after the other
NextReject ==
    \/ CanStart(1) /\ StoredSessions = {} /\
           \E r \in RequestInputs, os \in OutcomeSeqs :
               RequestRoleStart(1, r, FirstSid, os)
    \/ pc[1] = "request_role" /\
           \E po \in ProvisionOutcomes, os \in RequestRoleEndOutcomes :
               RequestRoleEnd(1, po, os)
    \/ CanStart(1) /\ StoredSessions # {} /\
           \E r \in RejectedRequests(settings), sid \in FreshIds :
               RequestRoleStart(1, r, sid, AllOk)
    \/ RevokeSteps({1})

SpecReject == Init /\ [][NextReject]_vars

\* the addresses given to the validator: those of IpChoices, the empty
\* string, the address the tests take as outside their two ranges, and
\* the two sides of the upper end of 172.16.0.0/12
ValidatorIps ==
    IpChoices \cup {"", "192.168.1.1", "172.31.255.255", "172.32.0.1"}

\* every RoleRequest(...) a caller can write with these addresses
ValidatorRequests ==
    [user_id : Users, permission_tier : PermissionTier,
     duration_hours : DurationChoices, reason_len : ReasonLengths,
     ip_address : ValidatorIps, mfa_used : BOOLEAN]

\* Settings with MFA required or not, and sessions of up to 1 or 36 hours
ValidatorSettings ==
    [mfa_required : BOOLEAN,
     max_session_duration :
         {DefaultMaxSessionDuration, MaxDurationHours * SecondsPerHour},
     break_glass_notification_topic : {FALSE}]

\* the validators: one request_role call, with every request, under
\* every setting, up to the point where the session record is stored
InitValidate ==
    /\ settings \in ValidatorSettings
    /\ now = 0
    /\ table = [s \in SessionIds |-> NoItem]
    /\ auditTable = {}
    /\ roles = [n \in RoleNames |-> NoRole]
    /\ held = [s \in SessionIds |-> NoItem]
    /\ pc = [w \in Workers |-> "idle"]
    /\ loc = [w \in Workers |-> IdleLoc]
    /\ ncalls = 0
    /\ nfaults = 0
    /\ calc = NoCalc

NextValidate ==
    ncalls = 0 /\ \E r \in ValidatorRequests, os \in OutcomeSeqs :
                      RequestRoleStart(1, r, FirstSid, os)

SpecValidate == InitValidate /\ [][NextValidate]_vars

(* ---------------------- RoleVendor.list_user_sessions ------------------ *)

\* Python's None for the status filter
NoStatus == "None"

\* DynamoDBManager.get_user_sessions: the sessions of the user, those of
\* the given status only when a status is given
get_user_sessions(tbl, user, status) ==
    {s \in SessionIds : /\ tbl[s] # NoItem
                        /\ tbl[s].user_id = user
                        /\ status # NoStatus => tbl[s].status = status}

\* the entry of list_user_sessions for a session, at time t
ListView(session, t) ==
    [session_id |-> session.session_id, status |-> session.status,
     time_remaining |-> Max(0, session.expires_at - t)]

\* the value list_user_sessions returns
Listing(views) == [kind |-> "list", views |-> views]

\* list_user_sessions writing an audit entry for the listing
list_user_sessions_audited(tbl, aud, user, status, t, os) ==
    LET l == [IdleLoc EXCEPT !.op = "list_user_sessions", !.at = t]
        entry == AuditLog(NoSid, user, "SESSIONS_LISTED", "read-only",
                          "SUCCESS")
    IN  IF os[1] = "ok"
        THEN Effect(tbl, log_audit_event(aud, entry), Audited(l, entry),
                    Listing({ListView(tbl[s], t) :
                                 s \in get_user_sessions(tbl, user, status)}),
                    1)
        ELSE Effect(tbl, aud, l, Listing({}), 1)

\* RoleVendor.list_user_sessions, role_vendor.py lines 195-215, called at
\* time t: an empty list when the query fails
list_user_sessions(tbl, aud, user, status, t, os) ==
    LET l == [IdleLoc EXCEPT !.op = "list_user_sessions", !.at = t]
    IN  IF os[1] = "ok"
        THEN Effect(tbl, aud, l,
                    Listing({ListView(tbl[s], t) :
                                 s \in get_user_sessions(tbl, user, status)}),
                    1)
        ELSE Effect(tbl, aud, l, Listing({}), 1)

ListUserSessions(w, user, status, os) ==
    /\ CanStart(w)
    /\ LET e == list_user_sessions(table, auditTable, user, status, now, os)
       IN  /\ Interact(os, e.used)
           /\ Start(w, e, "list_user_sessions")
    /\ UNCHANGED <<calc, settings, now, roles, held>>

\* the users and the status filters list_user_sessions is called with:
\* the user of the requests and one without sessions; no filter, and the
\* status of a session whose role was provisioned
ListUsers == Users \cup {"nobody"}
ListFilters == {NoStatus, "ACTIVE"}

ListSteps(W) ==
    \E w \in W : CanStart(w) /\
        \E user \in ListUsers, status \in ListFilters, os \in OutcomeSeqs :
            ListUserSessions(w, user, status, os)

\* the request of the tests, for one hour
TestRequests == {r \in LifecycleRequests : r.permission_tier = "read-only"}

\* the reads: sessions are requested, with the store and the audit table
\* answering and the role provisioned or not, the clock advances, and
\* get_session_status and list_user_sessions read the table, one call
\* after the other
NextRead ==
    \/ CanStart(1) /\ \E r \in TestRequests, sid \in FreshIds :
           RequestRoleStart(1, r, sid, AllOk)
    \/ pc[1] = "request_role" /\ \E po \in ProvisionOutcomes :
           RequestRoleEnd(1, po, AllOk)
    \/ StatusSteps({1})
    \/ ListSteps({1})
    \/ Tick

SpecRead == Init /\ [][NextRead]_vars

(* ----------------- cleanup_handler: the scheduled sweep ---------------- *)

\* the worker of the cleanup Lambda, and the worker of the callers
Sweeper == 2
Caller  == 1

\* cleanup_handler.lambda_handler, triggered by EventBridge on a
\* schedule: a call of cleanup_expired_sessions that no caller makes and
\* that is started again and again
ScheduledCleanupStart(w, os) ==
    /\ Free(w)
    /\ LET e == cleanup_begin(table, auditTable, now, os)
       IN  /\ Interact(os, e.used)
           /\ table' = e.tbl
           /\ auditTable' = e.aud
           /\ pc' = [pc EXCEPT ![w] = IF e.done THEN "done"
                                      ELSE "cleanup_expired_sessions"]
           /\ loc' = [loc EXCEPT ![w] =
                         [e.l EXCEPT !.faults = nfaults' - nfaults,
                                     !.after = After(loc[w], e.l)]]
    /\ UNCHANGED <<calc, settings, now, roles, held, ncalls>>

\* the steps of the scheduled sweep
ScheduledCleanupSteps ==
    \/ Free(Sweeper) /\ \E os \in OutcomeSeqs :
           ScheduledCleanupStart(Sweeper, os)
    \/ pc[Sweeper] = "cleanup_expired_sessions" /\
           \E sid \in loc[Sweeper].remaining, os \in OutcomeSeqs :
               CleanupTurn(Sweeper, sid, os)

\* the calls of the callers come to an end
CallerEndSteps ==
    \/ pc[Caller] = "request_role" /\
           \E po \in ProvisionOutcomes, os \in RequestRoleEndOutcomes :
               RequestRoleEnd(Caller, po, os)
    \/ pc[Caller] = "revoke_session" /\ RevokeEnd(Caller, AllOk)

\* the sessions that have not reached their expires_at
UnexpiredSessions == {s \in StoredSessions : table[s].expires_at >= now}

\* the starts of the callers' calls: the request of the tests until a
\* session is stored, and the revocation of a session before its expiry
CallerStartSteps ==
    \/ CanStart(Caller) /\ StoredSessions = {} /\
           \E r \in TestRequests, os \in OutcomeSeqs :
               RequestRoleStart(Caller, r, FirstSid, os)
    \/ CanStart(Caller) /\
           \E sid \in UnexpiredSessions : RevokeStart(Caller, sid, AllOk)

\* one session is requested, is revoked or not before it expires, and
\* time passes, while the sweep runs on its schedule
NextSweep ==
    \/ CallerStartSteps
    \/ CallerEndSteps
    \/ ScheduledCleanupSteps
    \/ Tick

\* the schedule keeps starting the sweep and every call runs to its end;
\* interactions fail MaxFaults times at most, so in the end they succeed
SpecSweep ==
    /\ Init /\ [][NextSweep]_vars
    /\ WF_vars(ScheduledCleanupSteps)
    /\ WF_vars(CallerEndSteps)

(* ------------------- PolicyManager: the role's policy ------------------ *)

\* a string that can hold placeholders, as its pieces in order: literal
\* text, or the placeholder ${name}
Text(t) == [placeholder |-> FALSE, text |-> t]
Placeholder(name) == [placeholder |-> TRUE, text |-> name]

\* str.replace("${name}", value): every occurrence in the string is
\* replaced, and what a replacement inserts is not searched again
RECURSIVE str_replace(_, _, _)
str_replace(str, name, value) ==
    IF str = <<>> THEN <<>>
    ELSE IF Head(str) = Placeholder(name)
         THEN value \o str_replace(Tail(str), name, value)
         ELSE <<Head(str)>> \o str_replace(Tail(str), name, value)

\* the names re.findall(r'\$\{([^}]+)\}', str) finds
PlaceholderNames(str) ==
    { str[i].text : i \in { j \in DOMAIN str : str[j].placeholder } }

\* one statement of a policy document; its Resource is a string
Statement(effect, action, resource) ==
    [Effect |-> effect, Action |-> action, Resource |-> resource]

\* PolicyTemplate.template_content and the document rendered from it, as
\* the JSON it spells: whether it has a Version, and its Statement list
Document(version, statement) ==
    [Version |-> version, Statement |-> statement]

\* the placeholders anywhere in a document
DocumentPlaceholders(doc) ==
    UNION { PlaceholderNames(doc.Statement[i].Resource) :
                i \in DOMAIN doc.Statement }

\* str.replace applied to the content of a document
content_replace(doc, name, value) ==
    [doc EXCEPT !.Statement =
        [i \in DOMAIN doc.Statement |->
            [doc.Statement[i] EXCEPT
                !.Resource = str_replace(@, name, value)]]]

\* the resources of the compiled-in templates
ProjectBuckets ==
    <<Text("arn:aws:s3:::"), Placeholder("projectId"), Text("-*"),
      Text("arn:aws:s3:::"), Placeholder("projectId"), Text("-*/*")>>
AnyResource == <<Text("*")>>

\* DEFAULT_TEMPLATES: the module-level dictionary of policy_manager.py,
\* with a template for three of the four tiers
DEFAULT_TEMPLATES ==
    [tier \in {"read-only", "developer", "admin"} |->
        CASE tier = "read-only" ->
               Document(TRUE,
                   <<Statement("Allow", <<"s3:GetObject", "s3:ListBucket">>,
                               ProjectBuckets),
                     Statement("Allow",
                               <<"ec2:Describe*", "iam:Get*", "iam:List*">>,
                               AnyResource)>>)
          [] tier = "developer" ->
               Document(TRUE,
                   <<Statement("Allow", <<"s3:*">>, ProjectBuckets),
                     Statement("Allow",
                               <<"ec2:*", "lambda:*", "iam:Get*",
                                 "iam:List*", "iam:PassRole">>,
                               AnyResource)>>)
          [] tier = "admin" ->
               Document(TRUE, <<Statement("Allow", <<"*">>, AnyResource)>>)]

\* Python's None for a template
NoTemplate == [none |-> "template"]

\* templates an operator can have uploaded to the template bucket
\* (upload_template stores any content): one naming the project and the
\* user, one with a variable _create_temporary_role does not supply, and
\* the content the tests render, whose Statement list is empty
UploadedTemplates ==
    { Document(TRUE,
          <<Statement("Allow", <<"s3:GetObject">>,
                      <<Text("arn:aws:s3:::"), Placeholder("projectId"),
                        Text("/home/"), Placeholder("userId"),
                        Text("/*")>>)>>),
      Document(TRUE,
          <<Statement("Allow", <<"s3:GetObject">>,
                      <<Text("arn:aws:s3:::"), Placeholder("department"),
                        Text("-*")>>)>>),
      Document(TRUE, <<>>),
      Document(FALSE, <<Statement("Permit", <<>>, AnyResource)>>) }

\* PolicyManager.get_policy_template: the template stored under the
\* tier's key; None when s3.get_object raises ClientError (NoSuchKey)
get_policy_template(bucket, tier) == bucket[tier]

\* PolicyManager._find_missing_variables: the placeholders left in the
\* content whose names are not among the variables
find_missing_variables(content, variables) ==
    { name \in DocumentPlaceholders(content) :
          \A i \in DOMAIN variables : variables[i].name # name }

\* the loop of generate_policy: one replace for every variable, in the
\* order of the dictionary
RECURSIVE replace_variables(_, _)
replace_variables(content, variables) ==
    IF variables = <<>> THEN content
    ELSE replace_variables(
             content_replace(content, Head(variables).name,
                             Head(variables).value),
             Tail(variables))

\* PolicyManager.generate_policy: the content after the replacements, or
\* ValueError with the missing variables
generate_policy(template, variables) ==
    LET policy_content == replace_variables(template, variables)
        missing_vars == find_missing_variables(policy_content, variables)
    IN  IF missing_vars # {}
        THEN [raised |-> "ValueError", missing |-> missing_vars]
        ELSE [raised |-> "none", document |-> policy_content]

\* PolicyManager.validate_policy on a document: a Version, a Statement
\* list, and in each statement an Effect of Allow or Deny and an Action
validate_policy(doc) ==
    /\ doc.Version
    /\ \A i \in DOMAIN doc.Statement :
           doc.Statement[i].Effect \in {"Allow", "Deny"}

\* what an instance of PolicyManager has: the two clients set by
\* __init__ and the methods of the class
PolicyManagerAttributes ==
    {"s3", "iam", "get_policy_template", "generate_policy",
     "create_trust_policy", "create_permission_boundary",
     "validate_policy", "_find_missing_variables", "upload_template"}

\* the template _create_temporary_role renders: the stored one, else
\* policy_manager.DEFAULT_TEMPLATES.get(tier), where policy_manager is
\* the PolicyManager instance role_vendor.py imports
select_template(bucket, tier) ==
    LET template == get_policy_template(bucket, tier)
    IN  IF template # NoTemplate
        THEN [raised |-> "none", template |-> template]
        ELSE IF "DEFAULT_TEMPLATES" \notin PolicyManagerAttributes
        THEN [raised |-> "AttributeError"]
        ELSE IF tier \notin DOMAIN DEFAULT_TEMPLATES
        THEN [raised |-> "ValueError"]
        ELSE [raised |-> "none", template |-> DEFAULT_TEMPLATES[tier]]

\* policy_variables of _create_temporary_role, in dictionary order
policy_variables(project_id, user_id, session_id) ==
    <<[name |-> "projectId", value |-> project_id],
      [name |-> "userId",    value |-> user_id],
      [name |-> "sessionId", value |-> session_id]>>

\* the keyword arguments _create_temporary_role gives iam.create_role
create_role_arguments(project_id, tier) ==
    [RoleName |-> <<Text("temp-role-")>> \o project_id,
     AssumeRolePolicyDocument |-> "trust_policy",
     Description |-> "Temporary role",
     MaxSessionDuration |-> DefaultMaxSessionDuration,
     Tags |-> {"Project", "User", "SessionId", "PermissionTier",
               "CreatedBy", "ExpiresAt"}]

\* no call of an IAM operation
NoCall == [none |-> "call"]

\* RoleVendor._create_temporary_role with IAM accepting what it is
\* given: the IAM calls it makes and whether it returns the role's ARN
create_temporary_role_calls(bucket, tier, project_id, user_id, session_id) ==
    LET selected == select_template(bucket, tier)
        rendered ==
            IF selected.raised # "none" THEN selected
            ELSE generate_policy(selected.template,
                     policy_variables(project_id, user_id, session_id))
    IN  IF rendered.raised # "none"
        THEN [raised |-> rendered.raised, create_role |-> NoCall,
              put_role_policy |-> NoCall, returns |-> "None"]
        ELSE [raised |-> "none",
              create_role |-> create_role_arguments(project_id, tier),
              put_role_policy |->
                  [PolicyName |-> "TemporaryAccessPolicy",
                   PolicyDocument |-> rendered.document],
              returns |-> "role_arn"]

(* ------------------ PolicyManager: the permission boundary ------------- *)

\* an IAM action: its service and the words of its name
IamAction(service, words) == [service |-> service, words |-> words]

\* an entry of a statement's Action list: "service:Name", "service:Pre*",
\* "service:*" (no words, a star) or "*" (any service, no words, a star)
ActionPattern(service, words, star) ==
    [service |-> service, words |-> words, star |-> star]

\* IAM's match of an action against an entry of an Action list
ActionMatches(pattern, action) ==
    /\ pattern.service \in {"*", action.service}
    /\ IF pattern.star
       THEN /\ Len(pattern.words) <= Len(action.words)
            /\ SubSeq(action.words, 1, Len(pattern.words)) = pattern.words
       ELSE pattern.words = action.words

\* a statement of a boundary; its Resource is "*" in every boundary
BoundaryStatement(effect, action) == [Effect |-> effect, Action |-> action]

AnyAction == ActionPattern("*", <<>>, TRUE)

\* PolicyManager.create_permission_boundary: the boundary of each tier
create_permission_boundary(tier) ==
    CASE tier = "read-only" ->
           <<BoundaryStatement("Allow",
                 <<ActionPattern("s3", <<"Get", "Object">>, FALSE),
                   ActionPattern("s3", <<"List", "Bucket">>, FALSE),
                   ActionPattern("ec2", <<"Describe">>, TRUE),
                   ActionPattern("iam", <<"Get">>, TRUE),
                   ActionPattern("iam", <<"List">>, TRUE)>>),
             BoundaryStatement("Deny",
                 <<ActionPattern("iam", <<>>, TRUE),
                   ActionPattern("s3", <<"Put", "Object">>, FALSE),
                   ActionPattern("s3", <<"Delete", "Object">>, FALSE),
                   ActionPattern("ec2", <<"Modify">>, TRUE),
                   ActionPattern("ec2", <<"Create">>, TRUE),
                   ActionPattern("ec2", <<"Delete">>, TRUE)>>)>>
      [] tier = "developer" ->
           <<BoundaryStatement("Allow",
                 <<ActionPattern("s3", <<>>, TRUE),
                   ActionPattern("ec2", <<>>, TRUE),
                   ActionPattern("lambda", <<>>, TRUE),
                   ActionPattern("iam", <<"Get">>, TRUE),
                   ActionPattern("iam", <<"List">>, TRUE),
                   ActionPattern("iam", <<"Pass", "Role">>, FALSE)>>),
             BoundaryStatement("Deny",
                 <<ActionPattern("iam", <<"Create", "Role">>, FALSE),
                   ActionPattern("iam", <<"Delete", "Role">>, FALSE),
                   ActionPattern("iam", <<"Attach", "Role", "Policy">>, FALSE),
                   ActionPattern("iam", <<"Detach", "Role", "Policy">>, FALSE),
                   ActionPattern("iam", <<"Put", "Role", "Policy">>, FALSE),
                   ActionPattern("iam", <<"Delete", "Role", "Policy">>, FALSE),
                   ActionPattern("kms", <<"Delete", "Key">>, FALSE),
                   ActionPattern("kms", <<"Schedule", "Key", "Deletion">>,
                                 FALSE)>>)>>
      [] tier = "admin" ->
           <<BoundaryStatement("Allow", <<AnyAction>>),
             BoundaryStatement("Deny",
                 <<ActionPattern("iam",
                       <<"Delete", "Account", "Password", "Policy">>, FALSE),
                   ActionPattern("iam", <<"Delete", "Account", "Alias">>,
                                 FALSE),
                   ActionPattern("iam", <<"Delete", "Account">>, FALSE),
                   ActionPattern("organizations",
                       <<"Leave", "Organization">>, FALSE),
                   ActionPattern("organizations",
                       <<"Delete", "Organization">>, FALSE)>>)>>
      [] tier = "break-glass" ->
           <<BoundaryStatement("Allow", <<AnyAction>>)>>

\* some statement of the boundary with this effect matches the action
BoundaryHas(boundary, effect, action) ==
    \E i \in DOMAIN boundary :
        /\ boundary[i].Effect = effect
        /\ \E j \in DOMAIN boundary[i].Action :
               ActionMatches(boundary[i].Action[j], action)

\* IAM's evaluation of a boundary: an action is denied when a Deny
\* statement matches it or no Allow statement does
BoundaryDenies(boundary, action) ==
    \/ BoundaryHas(boundary, "Deny", action)
    \/ ~BoundaryHas(boundary, "Allow", action)

(* --------------- the policy functions, each on its own ----------------- *)

\* the values a request's project_id and user_id can be (neither is
\* validated): plain text, or text that spells a placeholder
ProjectIdValues == { <<Text("proj")>>, <<Placeholder("projectId")>> }
UserIdValues ==
    { <<Text("u1")>>, <<Placeholder("projectId")>>,
      <<Placeholder("userId")>> }

\* str(uuid.uuid4())
SessionIdValue == <<Text("sid")>>

\* the template bucket: for the tier asked for, no object or one of the
\* uploaded templates
Buckets(tier) ==
    { [t \in PermissionTier |-> IF t = tier THEN c ELSE NoTemplate] :
          c \in UploadedTemplates \cup {NoTemplate} }

\* the inputs of _create_temporary_role and create_permission_boundary
PolicyInputs ==
    { [op |-> "input", tier |-> tier, bucket |-> b, project_id |-> p,
       user_id |-> u] :
          tier \in PermissionTier, b \in UNION { Buckets(t) : t \in PermissionTier },
          p \in ProjectIdValues, u \in UserIdValues }

InitPolicy ==
    /\ settings = DefaultSettings
    /\ now = 0
    /\ table = [s \in SessionIds |-> NoItem]
    /\ auditTable = {}
    /\ roles = [n \in RoleNames |-> NoRole]
    /\ held = [s \in SessionIds |-> NoItem]
    /\ pc = [w \in Workers |-> "idle"]
    /\ loc = [w \in Workers |-> IdleLoc]
    /\ ncalls = 0
    /\ nfaults = 0
    /\ calc \in PolicyInputs

\* _create_temporary_role applied to the inputs
CreateTemporaryRole ==
    /\ calc.op = "input"
    /\ calc' = [op |-> "_create_temporary_role", input |-> calc,
                calls |-> create_temporary_role_calls(calc.bucket,
                              calc.tier, calc.project_id, calc.user_id,
                              SessionIdValue)]
    /\ UNCHANGED <<settings, now, table, auditTable, roles, held, pc, loc,
                   ncalls, nfaults>>

\* create_permission_boundary applied to the tier
CreatePermissionBoundary ==
    /\ calc.op = "input"
    /\ calc' = [op |-> "create_permission_boundary", input |-> calc,
                boundary |-> create_permission_boundary(calc.tier)]
    /\ UNCHANGED <<settings, now, table, auditTable, roles, held, pc, loc,
                   ncalls, nfaults>>

NextPolicy == CreateTemporaryRole \/ CreatePermissionBoundary

SpecPolicy == InitPolicy /\ [][NextPolicy]_vars

(* ------------- DynamoDBManager: a session through the store ------------ *)

\* a datetime, and the string isoformat() makes of it
Datetime(t) == [datetime |-> t]
isoformat(d) == [iso |-> d.datetime]
fromisoformat(s) == [datetime |-> s.iso]

\* the fields of RoleSession, and those without a default
RoleSessionFields ==
    {"project_id", "session_id", "user_id", "role_arn", "permission_tier",
     "requested_at", "expires_at", "status", "request_metadata"}
RoleSessionRequired ==
    {"project_id", "user_id", "role_arn", "permission_tier", "expires_at"}

\* Python's None for a session object
NoSession == [none |-> "session"]

\* the item create_session gives put_item: session.dict(), keyed by the
\* field names of the model, with the two datetimes as ISO strings
create_session_item(session) ==
    [f \in RoleSessionFields |->
        IF f \in {"requested_at", "expires_at"}
        THEN isoformat(session[f]) ELSE session[f]]

\* the key attributes of the session table (the Key of get_item, the
\* KeySchema the tests create the table with)
TableKey == {"ProjectId", "SessionId"}

\* table.put_item: DynamoDB rejects an item without the key attributes
\* with a ValidationException, a ClientError; else the item replaces the
\* one of the same key
put_item(items, item) ==
    IF ~(TableKey \subseteq DOMAIN item)
    THEN [raised |-> "ClientError", items |-> items]
    ELSE [raised |-> "none",
          items |-> { i \in items :
                          \E k \in TableKey : i[k] # item[k] }
                    \cup {item}]

\* DynamoDBManager.create_session on a table of items: the table afterwards and the value
\* returned
create_session_in(items, session) ==
    LET put == put_item(items, create_session_item(session))
    IN  [items |-> put.items, returns |-> (put.raised = "none")]

\* field_mapping of _item_to_session: attribute name -> model field
field_mapping ==
    [db_field \in {"ProjectId", "SessionId", "UserId", "RoleArn",
                   "PermissionTier", "RequestedAt", "ExpiresAt", "Status",
                   "RequestMetadata"} |->
        CASE db_field = "ProjectId"       -> "project_id"
          [] db_field = "SessionId"       -> "session_id"
          [] db_field = "UserId"          -> "user_id"
          [] db_field = "RoleArn"         -> "role_arn"
          [] db_field = "PermissionTier"  -> "permission_tier"
          [] db_field = "RequestedAt"     -> "requested_at"
          [] db_field = "ExpiresAt"       -> "expires_at"
          [] db_field = "Status"          -> "status"
          [] db_field = "RequestMetadata" -> "request_metadata"]

\* the defaults of RoleSession for the fields that have one
RoleSessionDefault(f) ==
    CASE f = "session_id"       -> "uuid4"
      [] f = "requested_at"     -> Datetime(0)
      [] f = "status"           -> "PENDING"
      [] f = "request_metadata" -> {}

\* pydantic on a datetime field: an ISO string is parsed
ParseDatetime(v) == IF "iso" \in DOMAIN v THEN fromisoformat(v) ELSE v

\* DynamoDBManager._item_to_session: item['requested_at'] and
\* item['expires_at'] are read first (KeyError when absent), then the
\* attributes field_mapping names are copied and RoleSession is built
\* from them (ValidationError when a required field is absent); any
\* exception gives None
item_to_session(item) ==
    IF ~({"requested_at", "expires_at"} \subseteq DOMAIN item)
    THEN NoSession
    ELSE LET present == DOMAIN field_mapping \cap DOMAIN item
             mapped_fields == { field_mapping[d] : d \in present }
             value(f) ==
                 item[CHOOSE d \in present : field_mapping[d] = f]
         IN  IF ~(RoleSessionRequired \subseteq mapped_fields)
             THEN NoSession
             ELSE [f \in RoleSessionFields |->
                      IF f \notin mapped_fields THEN RoleSessionDefault(f)
                      ELSE IF f \in {"requested_at", "expires_at"}
                           THEN ParseDatetime(value(f))
                           ELSE value(f)]

\* DynamoDBManager.get_session on a table of items: get_item by the key, then
\* _item_to_session; None when there is no such item
get_session_in(items, project_id, session_id) ==
    LET found == { i \in items : /\ i["ProjectId"] = project_id
                                 /\ i["SessionId"] = session_id }
    IN  IF found = {} THEN NoSession
        ELSE item_to_session(CHOOSE i \in found : TRUE)

\* the sessions put through the store: both projects, every tier and
\* status, with and without a role ARN and metadata
StoreSessions ==
    [project_id : {"p1", "p2"}, session_id : {"s1"}, user_id : Users,
     role_arn : {"", "arn:aws:iam::role"},
     permission_tier : PermissionTier,
     requested_at : {Datetime(0)},
     expires_at : {Datetime(SecondsPerHour), Datetime(SecondsPerHour + 1)},
     status : SessionStatus,
     request_metadata : { {}, {<<"reason", "fix the build">>} }]

InitStore ==
    /\ settings = DefaultSettings
    /\ now = 0
    /\ table = [s \in SessionIds |-> NoItem]
    /\ auditTable = {}
    /\ roles = [n \in RoleNames |-> NoRole]
    /\ held = [s \in SessionIds |-> NoItem]
    /\ pc = [w \in Workers |-> "idle"]
    /\ loc = [w \in Workers |-> IdleLoc]
    /\ ncalls = 0
    /\ nfaults = 0
    /\ \E s \in StoreSessions :
           calc = [op |-> "input", session |-> s, items |-> {}]

\* create_session applied to the session, on the empty table
CreateSession ==
    /\ calc.op = "input"
    /\ LET created == create_session_in(calc.items, calc.session)
       IN  calc' = [op |-> "create_session", session |-> calc.session,
                    items |-> created.items, returns |-> created.returns]
    /\ UNCHANGED <<settings, now, table, auditTable, roles, held, pc, loc,
                   ncalls, nfaults>>

\* get_session by the session's project id and session id, after
\* create_session
GetSession ==
    /\ calc.op = "create_session"
    /\ calc' = [op |-> "get_session", session |-> calc.session,
                items |-> calc.items,
                returns |-> get_session_in(calc.items,
                                calc.session.project_id,
                                calc.session.session_id)]
    /\ UNCHANGED <<settings, now, table, auditTable, roles, held, pc, loc,
                   ncalls, nfaults>>

\* _item_to_session applied to the item create_session makes of the
\* session
ItemToSession ==
    /\ calc.op = "input"
    /\ calc' = [op |-> "_item_to_session", session |-> calc.session,
                items |-> calc.items,
                returns |-> item_to_session(
                                create_session_item(calc.session))]
    /\ UNCHANGED <<settings, now, table, auditTable, roles, held, pc, loc,
                   ncalls, nfaults>>

NextStore == CreateSession \/ GetSession \/ ItemToSession

SpecStore == InitStore /\ [][NextStore]_vars

(* ------------------------------- claims ------------------------------- *)

\* worker w has finished a call of operation op; its locals are loc[w]
Done(w, op) == pc[w] = "done" /\ loc[w].op = op

\* the status writes to status st that call l applied
WritesTo(l, st) == {i \in 1..Len(l.wrote) : l.wrote[i].to = st}

\* the status writes that call l applied to session sid
WritesOn(l, sid) == {i \in 1..Len(l.wrote) : l.wrote[i].sid = sid}

\* the audit entry of request_role for the session of call l
RequestAudit(l, result) ==
    AuditLog(l.sid, l.req.user_id, "ROLE_REQUESTED", l.req.permission_tier,
             result)

\* what get_session_status returns for session sid at time t when the
\* store answers
StatusOf(sid, t) ==
    get_session_status(table, auditTable, sid, t, AllOk).l.result

\* C1: once the stored status of a session is FAILED, REVOKED or EXPIRED,
\* no step changes it.
C1_TerminalStatusIsFinal ==
    [][\A s \in SessionIds :
          (table[s] # NoItem /\ table[s].status \in TerminalStatus)
              => table'[s].status = table[s].status]_vars

\* C2: when two concurrent revoke_session calls on the same session both
\* read it as ACTIVE and no interaction fails, exactly one of them returns
\* True and exactly one write to REVOKED is applied.
C2_OneRevokeSucceeds ==
    \A w1, w2 \in Workers :
        ( /\ w1 < w2
          /\ Done(w1, "revoke_session") /\ Done(w2, "revoke_session")
          /\ loc[w1].sid = loc[w2].sid
          /\ loc[w1].sess # NoItem /\ loc[w2].sess # NoItem
          /\ loc[w1].sess.status = "ACTIVE" /\ loc[w2].sess.status = "ACTIVE"
          /\ nfaults = 0 )
        => /\ Cardinality({w \in {w1, w2} : loc[w].result = Ret("True")}) = 1
           /\ Cardinality(WritesTo(loc[w1], "REVOKED"))
                + Cardinality(WritesTo(loc[w2], "REVOKED")) = 1

\* C3: when revoke_session races cleanup_expired_sessions on an ACTIVE
\* session whose expiry has passed and no interaction fails, not both
\* succeed: the revoke does not return True while the sweep also writes,
\* counts and audits the session.
C3_RevokeOrSweepNotBoth ==
    \A wr, wc \in Workers :
        ( /\ Done(wr, "revoke_session")
          /\ Done(wc, "cleanup_expired_sessions")
          /\ loc[wr].sess # NoItem
          /\ loc[wr].sess.status = "ACTIVE"
          /\ loc[wr].sess.expires_at < loc[wc].at
          /\ nfaults = 0 )
        => ~( /\ loc[wr].result = Ret("True")
              /\ WritesOn(loc[wc], loc[wr].sid) # {}
              /\ loc[wc].result.n >= 1 )

\* C4: for every tier, a request of more hours than the tier's maximum is
\* rejected and creates no session.
C4_OverTierMaxRejected ==
    \A w \in Workers :
        ( /\ Done(w, "request_role")
          /\ loc[w].req.duration_hours > TierMaxHours(loc[w].req.permission_tier) )
        => /\ loc[w].result.kind \in {"ValidationError", "None"}
           /\ loc[w].sid = NoSid

\* a request the validator of spec section 4.1 accepts under settings cfg
ValidRequest(cfg, r) ==
    /\ r.duration_hours >= MinDurationHours
    /\ r.duration_hours <= MaxDurationHours
    /\ r.duration_hours <= TierMaxHours(r.permission_tier)
    /\ cfg.mfa_required => r.mfa_used
    /\ r.ip_address = NoIp \/ is_ip_allowed(r.ip_address)
    /\ r.reason_len >= MinReasonLength

\* C5: for every valid request, when no interaction fails, request_role
\* returns an ACTIVE session, and get_session_status right after it
\* reports ACTIVE with a time remaining between 0 and the requested
\* duration in seconds.
C5_ValidRequestBecomesActive ==
    \A w \in Workers :
        ( /\ Done(w, "request_role")
          /\ ValidRequest(settings, loc[w].req)
          /\ nfaults = 0 )
        => /\ loc[w].result = Ret("session")
           /\ loc[w].sess.status = "ACTIVE"
           /\ StatusOf(loc[w].sid, loc[w].at).kind = "status"
           /\ StatusOf(loc[w].sid, loc[w].at).status = "ACTIVE"
           /\ StatusOf(loc[w].sid, loc[w].at).time_remaining
                 \in 0..(loc[w].req.duration_hours * SecondsPerHour)

\* C6: in every reachable state, a session stored as ACTIVE has its role
\* in IAM: the role of its name exists, was created for this session and
\* carries its policy.
C6_ActiveHasRole ==
    \A s \in SessionIds :
        (table[s] # NoItem /\ table[s].status = "ACTIVE")
        => /\ roles[RoleName(s)] # NoRole
           /\ roles[RoleName(s)].sid = s
           /\ roles[RoleName(s)].policy

\* C6, its case: a session is stored as ACTIVE while a second request,
\* whose role name collides with the first one's, is stored as FAILED
C6_Witness ==
    \E s, s2 \in SessionIds :
        /\ s # s2 /\ RoleName(s) = RoleName(s2)
        /\ table[s] # NoItem /\ table[s].status = "ACTIVE"
        /\ table[s2] # NoItem /\ table[s2].status = "FAILED"
        /\ roles[RoleName(s)] # NoRole

\* C7: after request_role has completed for a session it created, and
\* the audit table has taken every entry the call wrote to it, the session
\* is stored as ACTIVE exactly if the audit table holds the SUCCESS entry
\* of the request.
C7_ActiveIffAuditSuccess ==
    \A w \in Workers :
        (Done(w, "request_role") /\ loc[w].sid # NoSid /\ loc[w].dropped = 0)
        => ( table[loc[w].sid].status = "ACTIVE"
               <=> RequestAudit(loc[w], "SUCCESS") \in auditTable )

\* C8: when provisioning the role fails, request_role leaves the session
\* stored as FAILED, the audit table holds the FAILURE entry of the
\* request, and the call returns an error.
C8_ProvisionFailureRecorded ==
    \A w \in Workers :
        ( /\ Done(w, "request_role")
          /\ loc[w].sid # NoSid
          /\ loc[w].sess.role_arn = NoArn )
        => /\ table[loc[w].sid].status = "FAILED"
           /\ RequestAudit(loc[w], "FAILURE") \in auditTable
           /\ loc[w].result = Ret("None")

\* assume_role was called on worker w with an ACTIVE session object after
\* the session's expires_at
ExpiredAssume(w) ==
    /\ Done(w, "assume_role")
    /\ loc[w].sess.status = "ACTIVE"
    /\ loc[w].at > loc[w].sess.expires_at

C10_InactiveNotAssumed ==
    \A w \in Workers :
        (Done(w, "assume_role") /\ loc[w].sess.status # "ACTIVE")
        => /\ loc[w].result = Ret("None")
           /\ loc[w].sts = NoItem

\* C10, its case: assume_role was called with a REVOKED session that has
\* not expired
C10_Witness ==
    \E w \in Workers :
        /\ Done(w, "assume_role")
        /\ loc[w].sess.status = "REVOKED"
        /\ loc[w].at <= loc[w].sess.expires_at
        /\ loc[w].result = Ret("None")

\* C11: whenever assume_role exchanges a session for credentials, the
\* validity it requests is the lesser of the ceiling of 3600 seconds and
\* the time left until the session's expires_at, so the credentials end
\* no later than expires_at and no later than an hour after the call.
C11_ValidityWithinSession ==
    \A w \in Workers :
        (Done(w, "assume_role") /\ loc[w].sts # NoItem)
        => LET d == loc[w].sts.DurationSeconds
               left == loc[w].sess.expires_at - loc[w].sts.at
           IN  /\ d <= MaxCredentialSeconds /\ d <= left
               /\ d = MaxCredentialSeconds \/ d = left
               /\ loc[w].sts.at + d <= loc[w].sess.expires_at
               /\ loc[w].sts.at + d <= loc[w].sts.at + SecondsPerHour

\* C11, its case: credentials were issued for a session with less than
\* the ceiling left, and the validity requested was what was left
C11_Witness ==
    \E w \in Workers :
        /\ Done(w, "assume_role")
        /\ loc[w].sts # NoItem
        /\ loc[w].result = Ret("credentials")
        /\ loc[w].sess.expires_at - loc[w].sts.at < MaxCredentialSeconds
        /\ loc[w].sts.DurationSeconds = loc[w].sess.expires_at - loc[w].sts.at

\* C12: every call of assume_role writes an audit entry, whether it
\* returned credentials, found the session not ACTIVE, found it expired
\* or failed at STS (the audit table taking every entry written to it).
C12_EveryAssumeAudited ==
    \A w \in Workers :
        (Done(w, "assume_role") /\ loc[w].dropped = 0)
        => loc[w].audits # <<>>

\* the operations of RoleVendor that write a session's status
StatusWriters ==
    {"request_role", "assume_role", "revoke_session",
     "cleanup_expired_sessions"}

\* C13: every change of a session's stored status comes with an audit
\* entry: a completed call has written at least as many audit entries as
\* it has written statuses (the audit table taking every entry written).
C13_StatusWriteAudited ==
    \A w \in Workers :
        ( /\ \E op \in StatusWriters : Done(w, op)
          /\ loc[w].dropped = 0 )
        => Len(loc[w].audits) >= Len(loc[w].wrote)

\* C14: revoke_session on a session whose stored status is not ACTIVE
\* (PENDING, or a terminal one) returns an error, leaves the stored status
\* as it was and writes no audit entry of a revocation.
C14_RevokeOnlyActive ==
    \A w \in Workers :
        ( /\ Done(w, "revoke_session")
          /\ loc[w].sess # NoItem
          /\ loc[w].sess.status # "ACTIVE" )
        => /\ loc[w].result = Ret("False")
           /\ loc[w].wrote = <<>>
           /\ loc[w].audits = <<>>

\* C15: cleanup_expired_sessions changes to EXPIRED only sessions that
\* were PENDING or ACTIVE and whose expires_at has passed, writes one audit
\* entry for each session it changes and returns their number; a REVOKED
\* or FAILED session is neither selected nor changed.
C15_SweepOnlyNonTerminal ==
    \A w \in Workers :
        Done(w, "cleanup_expired_sessions")
        => /\ \A i \in DOMAIN loc[w].wrote :
                  /\ loc[w].wrote[i].from \in {"PENDING", "ACTIVE"}
                  /\ loc[w].wrote[i].to = "EXPIRED"
                  /\ table[loc[w].wrote[i].sid].expires_at < loc[w].at
           /\ nfaults = 0
                => /\ loc[w].result = Count(Len(loc[w].wrote))
                   /\ Len(loc[w].audits) = Len(loc[w].wrote)

\* C16 as stated: when cleanup_expired_sessions is called twice in
\* succession with no expiry passing between the calls, the second call
\* returns 0, changes no status and writes no audit entry.
C16_SecondSweepDoesNothing ==
    \A w \in Workers :
        (Done(w, "cleanup_expired_sessions") /\ loc[w].after # "none")
        => /\ loc[w].result = Count(0)
           /\ loc[w].wrote = <<>>
           /\ loc[w].audits = <<>>

\* C16 as amended: when cleanup_expired_sessions is called right after a
\* sweep in which no interaction failed, with no expiry passing between
\* the calls, the second call returns 0, changes no status and writes no
\* audit entry.
C16_SweepIdempotent ==
    \A w \in Workers :
        (Done(w, "cleanup_expired_sessions") /\ loc[w].after = "sweep")
        => /\ loc[w].result = Count(0)
           /\ loc[w].wrote = <<>>
           /\ loc[w].audits = <<>>

\* C16, its case: a sweep has changed a session to EXPIRED and audited
\* it, and the sweep run right after it has returned 0
C16_Witness ==
    \E w \in Workers :
        /\ Done(w, "cleanup_expired_sessions")
        /\ loc[w].after = "sweep"
        /\ loc[w].result = Count(0)
        /\ \E s \in StoredSessions :
              /\ table[s].status = "EXPIRED"
              /\ AuditLog(s, table[s].user_id, "ROLE_EXPIRED",
                          table[s].permission_tier, "SUCCESS") \in auditTable

\* C17: when the status update of a candidate fails during
\* cleanup_expired_sessions (every audit entry being written), the sweep
\* still takes every remaining candidate and returns the number of
\* sessions it changed.
C17_SweepSurvivesFailedUpdate ==
    \A w \in Workers :
        ( /\ Done(w, "cleanup_expired_sessions")
          /\ loc[w].faults > 0
          /\ loc[w].dropped = 0 )
        => /\ loc[w].remaining = {}
           /\ loc[w].result = Count(Len(loc[w].wrote))

\* C18: a request_role call whose request the validator rejects has no
\* side effect: it stores no session record, creates no role, writes no
\* audit entry and changes no stored session.
C18_RejectedRequestNoEffect ==
    [][\A w \in Workers :
          ( /\ Free(w)
            /\ ncalls' = ncalls + 1
            /\ loc'[w].op = "request_role"
            /\ ValidatorRejects(settings, loc'[w].req) )
          => /\ table' = table
             /\ roles' = roles
             /\ auditTable' = auditTable
             /\ held' = held
             /\ pc'[w] = "done"
             /\ loc'[w].sid = NoSid
             /\ loc'[w].audits = <<>>]_vars

\* C18, its case: a request the validator rejected has returned while the
\* session of an earlier request is stored as ACTIVE, and no record was
\* stored for it
C18_Witness ==
    \E w \in Workers :
        /\ Done(w, "request_role")
        /\ ValidatorRejects(settings, loc[w].req)
        /\ loc[w].result = Ret("None")
        /\ loc[w].sid = NoSid
        /\ Cardinality(StoredSessions) = 1
        /\ \E s \in StoredSessions : table[s].status = "ACTIVE"

\* C19: when the settings require MFA, request_role rejects every request
\* with mfa_used false, whatever its other fields: it returns an error and
\* stores no session record.
C19_MfaRequired ==
    \A w \in Workers :
        ( /\ loc[w].op = "request_role"
          /\ settings.mfa_required
          /\ ~loc[w].req.mfa_used )
        => /\ Done(w, "request_role")
           /\ loc[w].result.kind \in {"None", "ValidationError"}
           /\ loc[w].sid = NoSid
           /\ StoredSessions = {}

\* C19, its case: a request that lacks nothing but MFA (an admin request
\* of four hours from an allowed address, under settings that allow 36
\* hours and require MFA) was rejected by _validate_request
C19_Witness ==
    \E w \in Workers :
        /\ Done(w, "request_role")
        /\ settings.mfa_required
        /\ settings.max_session_duration = MaxDurationHours * SecondsPerHour
        /\ ~loc[w].req.mfa_used
        /\ loc[w].req.permission_tier = "admin"
        /\ loc[w].req.duration_hours = 4
        /\ loc[w].req.ip_address = "10.1.1.1"
        /\ RoleRequestConstructs(loc[w].req)
        /\ loc[w].result = Ret("None")

\* the addresses of 10.0.0.0/8, 172.16.0.0/12 and 192.168.0.0/16, by
\* their octets
InsideAllowList(octets) ==
    \/ octets[1] = 10
    \/ octets[1] = 172 /\ octets[2] \in 16..31
    \/ octets[1] = 192 /\ octets[2] = 168

C22_ActiveRecordComplete ==
    \A w \in Workers :
        ( /\ Done(w, "request_role")
          /\ loc[w].result = Ret("session")
          /\ loc[w].faults = 0 )
        => /\ table[loc[w].sid].status = "ACTIVE"
           /\ table[loc[w].sid].role_arn = get_role_arn(RoleName(loc[w].sid))
           /\ table[loc[w].sid].request_metadata
                 = RequestMetadata(loc[w].req,
                                   get_external_id(loc[w].req.user_id,
                                                   loc[w].at))

\* C23: when writes of audit entries are the only interactions of a call
\* that fail, the call returns what it returns when they succeed: the
\* session after ACTIVE was written, credentials after STS answered, True
\* after REVOKED was written, the number of sessions the sweep changed.
C23_AuditFailureKeepsResult ==
    \A w \in Workers :
        ( /\ pc[w] = "done"
          /\ loc[w].dropped > 0
          /\ loc[w].faults = loc[w].dropped )
        => /\ (loc[w].op = "request_role" /\ loc[w].wrote # <<>>)
                => loc[w].result = Ret("session")
           /\ (loc[w].op = "assume_role" /\ loc[w].sts # NoItem)
                => loc[w].result = Ret("credentials")
           /\ (loc[w].op = "revoke_session" /\ loc[w].wrote # <<>>)
                => loc[w].result = Ret("True")
           /\ loc[w].op = "cleanup_expired_sessions"
                => /\ loc[w].result = Count(Len(loc[w].wrote))
                   /\ loc[w].remaining = {}

\* C24: no failure of the session table, of STS or IAM, of the audit
\* table or of SNS leaves an operation of RoleVendor as an exception:
\* every call returns a value.
C24_NoUncaughtFault ==
    \A w \in Workers : pc[w] = "done" => loc[w].result # Ret("raised")

\* C25: when the template bucket holds no template for the requested tier
\* and DEFAULT_TEMPLATES has one, _create_temporary_role renders the
\* default template and returns the role, so request_role does not fail
\* for want of a stored template.
C25_DefaultTemplateUsed ==
    ( /\ calc.op = "_create_temporary_role"
      /\ get_policy_template(calc.input.bucket, calc.input.tier)
             = NoTemplate
      /\ calc.input.tier \in DOMAIN DEFAULT_TEMPLATES )
    => /\ calc.calls.returns = "role_arn"
       /\ calc.calls.put_role_policy.PolicyDocument =
              replace_variables(DEFAULT_TEMPLATES[calc.input.tier],
                  policy_variables(calc.input.project_id,
                                   calc.input.user_id, SessionIdValue))

\* C26: generate_policy never returns a document that still holds a
\* ${name} placeholder, whatever the template and whatever the values of
\* the variables (values that spell a placeholder included): the document
\* _create_temporary_role receives from it and gives to put_role_policy
\* has no placeholder left.
C26_NoPlaceholderLeft ==
    (calc.op = "_create_temporary_role" /\ calc.calls.raised = "none")
    => DocumentPlaceholders(calc.calls.put_role_policy.PolicyDocument)
           = {}

\* what the specification asks of a policy document: a version marker and
\* a non-empty list of statements, each with an effect of Allow or Deny
\* and at least one action
StructurallyValid(doc) ==
    /\ doc.Version
    /\ doc.Statement # <<>>
    /\ \A i \in DOMAIN doc.Statement :
           /\ doc.Statement[i].Effect \in {"Allow", "Deny"}
           /\ doc.Statement[i].Action # <<>>

\* C27: _create_temporary_role never gives IAM a structurally invalid
\* policy document: whenever it calls create_role or put_role_policy, the
\* rendered document is structurally valid.
C27_OnlyValidPolicyProvisioned ==
    ( /\ calc.op = "_create_temporary_role"
      /\ \/ calc.calls.create_role # NoCall
         \/ calc.calls.put_role_policy # NoCall )
    => StructurallyValid(calc.calls.put_role_policy.PolicyDocument)

\* C28: every role _create_temporary_role creates has the tier's
\* permission boundary attached, together with the rendered policy.
C28_BoundaryAttached ==
    (calc.op = "_create_temporary_role" /\ calc.calls.create_role # NoCall)
    => /\ calc.calls.put_role_policy # NoCall
       /\ "PermissionsBoundary" \in DOMAIN calc.calls.create_role
       /\ calc.calls.create_role.PermissionsBoundary
              = create_permission_boundary(calc.input.tier)

\* the actions by which a role holder could widen its own rights or
\* destroy keys
SelfEscalationActions ==
    { IamAction("iam", <<"Create", "Role">>),
      IamAction("iam", <<"Delete", "Role">>),
      IamAction("iam", <<"Attach", "Role", "Policy">>),
      IamAction("iam", <<"Detach", "Role", "Policy">>),
      IamAction("iam", <<"Put", "Role", "Policy">>),
      IamAction("iam", <<"Delete", "Role", "Policy">>),
      IamAction("kms", <<"Delete", "Key">>),
      IamAction("kms", <<"Schedule", "Key", "Deletion">>) }

\* C29: for every tier, admin included, the boundary that
\* create_permission_boundary generates denies every self-escalation
\* action: creating or deleting a role, attaching, detaching, putting or
\* deleting a role policy, and deleting a key.
C29_BoundaryDeniesEscalation ==
    calc.op = "create_permission_boundary"
    => \A a \in SelfEscalationActions : BoundaryDenies(calc.boundary, a)

\* C30: a session created in the store and read back by its project id
\* and session id, or serialized to an item and converted back, is equal
\* to the original field for field: status, expiry and metadata included.
C30_StoreRoundTrip ==
    calc.op \in {"get_session", "_item_to_session"}
    => calc.returns = calc.session

\* the call that worker w has finished is an assume_role that returned
\* credentials; they were issued at loc[w].sts.at for
\* loc[w].sts.DurationSeconds seconds
IssuedCredentials(w) ==
    Done(w, "assume_role") /\ loc[w].result = Ret("credentials")

\* C31: at most one unexpired credential set exists for a session: no
\* assume_role call returns credentials for a session while the
\* credentials the caller's previous assume_role call was given for the
\* same session have not reached their expiration.
C31_OneCredentialSetPerSession ==
    [][\A w \in Workers :
          ( /\ IssuedCredentials(w)
            /\ ncalls' = ncalls + 1
            /\ loc[w].sts.at + loc[w].sts.DurationSeconds > now )
          => ~( /\ pc'[w] = "done"
                /\ loc'[w].op = "assume_role"
                /\ loc'[w].sid = loc[w].sid
                /\ loc'[w].result = Ret("credentials") )]_vars

\* the time remaining of a session that expires at e, at time t
TimeRemaining(e, t) == IF e - t > 0 THEN e - t ELSE 0

\* C32: get_session_status and list_user_sessions are pure reads: a call
\* of either changes no stored session, no role and no audit entry, and
\* the time_remaining it reports for a session is max(0, expires_at - now).
C32_ReadsArePure ==
    [][\A w \in Workers :
          ( /\ ncalls' = ncalls + 1
            /\ loc'[w].op \in {"get_session_status", "list_user_sessions"} )
          => /\ table' = table
             /\ roles' = roles
             /\ auditTable' = auditTable
             /\ loc'[w].audits = <<>> /\ loc'[w].wrote = <<>>
             /\ loc'[w].result.kind = "status"
                  => /\ table[loc'[w].sid] # NoItem
                     /\ loc'[w].result.status = table[loc'[w].sid].status
                     /\ loc'[w].result.time_remaining =
                          TimeRemaining(table[loc'[w].sid].expires_at, now)
             /\ loc'[w].result.kind = "list"
                  => \A v \in loc'[w].result.views :
                         /\ table[v.session_id] # NoItem
                         /\ v.status = table[v.session_id].status
                         /\ v.time_remaining =
                              TimeRemaining(table[v.session_id].expires_at,
                                            now)]_vars

\* C32, its case: list_user_sessions has returned two sessions, one not
\* yet expired and one past its expiry, reported with no time remaining
C32_Witness ==
    \E w \in Workers :
        /\ Done(w, "list_user_sessions")
        /\ \E v1, v2 \in loc[w].result.views :
               /\ v1.time_remaining > 0
               /\ v2.time_remaining = 0
               /\ table[v2.session_id].expires_at < loc[w].at

\* C33: get_session_status and revoke_session called with a key that is
\* not in the session table report not-found, get_session_status by
\* returning None and revoke_session by returning False, in that one
\* step, and change neither the session table nor the audit table.
C33_UnknownKeyNotFound ==
    [][\A w \in Workers :
          ( /\ ncalls' = ncalls + 1
            /\ loc'[w].op \in {"get_session_status", "revoke_session"}
            /\ loc'[w].sid \notin StoredSessions )
          => /\ pc'[w] = "done"
             /\ loc'[w].op = "get_session_status"
                  => loc'[w].result = Ret("None")
             /\ loc'[w].op = "revoke_session"
                  => loc'[w].result = Ret("False")
             /\ table' = table
             /\ auditTable' = auditTable
             /\ roles' = roles]_vars

\* C33, its case: with a session in the table, revoke_session was called
\* with a key that is not in it and returned False
C33_Witness ==
    \E w \in Workers :
        /\ Done(w, "revoke_session")
        /\ StoredSessions # {}
        /\ loc[w].sid \notin StoredSessions
        /\ loc[w].faults = 0
        /\ loc[w].result = Ret("False")

\* session s is stored as PENDING or ACTIVE and its expires_at has passed
ExpiredNonTerminal(s) ==
    /\ table[s] # NoItem
    /\ table[s].status \in {"PENDING", "ACTIVE"}
    /\ table[s].expires_at < now

C35_RenderErrorLeavesNoRecord ==
    [][\A w \in Workers, os \in RequestRoleEndOutcomes :
          RequestRoleEnd(w, "render_error", os)
          => table'[loc[w].sid] = NoItem]_vars

\* the role name of the session that request_role is provisioning on
\* worker w is taken at IAM
RoleNameTaken(w) ==
    /\ pc[w] = "request_role"
    /\ roles[RoleName(loc[w].sid)] # NoRole

\* C36 as stated: a request_role whose role name already exists at IAM
\* returns an error, leaves the new session stored as FAILED, changes
\* neither the existing role nor its policy and creates no second role.
C36_CollisionMarksFailed ==
    [][\A w \in Workers :
          (RoleNameTaken(w) /\ pc'[w] = "done")
          => /\ loc'[w].result.kind \in {"None", "raised"}
             /\ roles' = roles
             /\ table'[loc[w].sid].status = "FAILED"]_vars

\* C36: a request_role whose role name already exists at IAM returns an
\* error, changes neither the existing role nor its policy, creates no
\* second role and writes FAILED for the new session; when the store
\* applies that write, the new session is stored as FAILED.
C36_CollisionFailsCleanly ==
    [][\A w \in Workers, po \in ProvisionOutcomes,
          os \in RequestRoleEndOutcomes :
          (RoleNameTaken(w) /\ RequestRoleEnd(w, po, os))
          => /\ pc'[w] = "done"
             /\ loc'[w].result.kind \in {"None", "raised"}
             /\ held' = held
             /\ roles' = roles
             /\ os[1] = "ok" => table'[loc[w].sid].status = "FAILED"]_vars

\* C36, its case: request_role has returned None for a session stored as
\* FAILED whose role name belongs to the role of another session, which
\* still carries its policy
C36_Witness ==
    \E w \in Workers :
        /\ Done(w, "request_role")
        /\ loc[w].result = Ret("None")
        /\ loc[w].sid # NoSid
        /\ loc[w].wrote = <<[sid |-> loc[w].sid, from |-> "PENDING",
                             to |-> "FAILED"]>>
        /\ table[loc[w].sid].status = "FAILED"
        /\ roles[RoleName(loc[w].sid)] # NoRole
        /\ roles[RoleName(loc[w].sid)].sid # loc[w].sid
        /\ roles[RoleName(loc[w].sid)].policy

\* role names that collide: request_role only, calls on two workers
\* interleaved, so that a request finds the role name of its session taken
\* by the role of a request that ended before it or while it was running
NextCollide ==
    RequestRoleSteps(Workers, LifecycleRequests)

SpecCollide == Init /\ [][NextCollide]_vars

\* revoke_session has returned True for session s on some worker, and s is
\* stored as REVOKED
RevokeSucceeded(s) ==
    /\ table[s] # NoItem /\ table[s].status = "REVOKED"
    /\ \E v \in Workers :
           /\ Done(v, "revoke_session")
           /\ loc[v].sid = s
           /\ loc[v].result = Ret("True")

\* C37: once revoke_session has succeeded for a session, no assume_role
\* call made after it for that session returns credentials, whichever
\* session object the caller passes, one obtained before the revoke
\* included.
C37_NoCredentialsAfterRevoke ==
    [][\A w \in Workers :
          ( /\ ncalls' = ncalls + 1
            /\ loc'[w].op = "assume_role"
            /\ loc'[w].sid # NoSid
            /\ RevokeSucceeded(loc'[w].sid) )
          => loc'[w].result # Ret("credentials")]_vars

\* C38: request_role returns a session with status ACTIVE only if the
\* store's write of ACTIVE for that session succeeded: when a request_role
\* call ends returning a session, the call has applied the write of ACTIVE
\* and the session is stored as ACTIVE at that moment.
C38_ActiveReturnedOnlyIfStored ==
    [][\A w \in Workers :
          ( /\ pc[w] = "request_role"
            /\ pc'[w] = "done"
            /\ loc'[w].result = Ret("session")
            /\ loc'[w].sess.status = "ACTIVE" )
          => /\ \E i \in DOMAIN loc'[w].wrote :
                    /\ loc'[w].wrote[i].sid = loc[w].sid
                    /\ loc'[w].wrote[i].to = "ACTIVE"
             /\ table'[loc[w].sid].status = "ACTIVE"]_vars

\* C39: whenever request_role ends with its session stored as FAILED, no
\* role created for that session is left at IAM; a role that was created
\* and whose put_role_policy failed is not left behind.
C39_FailedLeavesNoRole ==
    \A w \in Workers :
        ( /\ Done(w, "request_role")
          /\ loc[w].sid # NoSid
          /\ table[loc[w].sid].status = "FAILED" )
        => \A n \in RoleNames :
               roles[n] # NoRole => roles[n].sid # loc[w].sid

\* C40: assume_role never asks STS for a validity of zero or fewer
\* seconds: whenever sts.assume_role is called, also when the call is made
\* at the very time of the session's expires_at, DurationSeconds is at
\* least 1.
C40_DurationAtLeastOneSecond ==
    \A w \in Workers :
        (loc[w].op = "assume_role" /\ loc[w].sts # NoItem)
        => loc[w].sts.DurationSeconds >= 1

====
